---- MODULE Spec2Model ----
(***************************************************************************)
(* A model of the rlox tree-walking interpreter (src/src/interpreter.rs,   *)
(* src/src/environment.rs, src/src/token.rs).                              *)
(*                                                                         *)
(* Environments are Rc<RefCell<Environment>> cells; they are modelled as   *)
(* a heap (a sequence of cells) addressed by their index, 0 standing for   *)
(* None.  The recursive evaluator is modelled by recursive operators that  *)
(* thread the interpreter state `st` and return [st, r], r being the       *)
(* Result of the Rust function.  One step of the model is one iteration of *)
(* the loop of Interpreter::interpret.                                     *)
(***************************************************************************)
EXTENDS Integers, Sequences, FiniteSets, TLC

\* ------------------------------------------------------------------ bounds
MaxStmts == 3       \* statements of a program after its prelude
MaxDepth == 5       \* nested call_function activations before the stack overflows
MaxIter  == 3       \* iterations of one while loop before it is cut off
MaxNum   == 2       \* the operands of the arithmetic programs are -MaxNum..MaxNum
MaxLen   == 3       \* characters of a source text given to the scanner

\* ------------------------------------------------- expressions (expr.rs)
Tok(lexeme, line) == [lexeme |-> lexeme, line |-> line]

Lit(value)              == [k |-> "Literal", value |-> value]
Var(name)               == [k |-> "Variable", name |-> name]
Grouping(expression)    == [k |-> "Grouping", expression |-> expression]
Unary(operator, right)  == [k |-> "Unary", operator |-> operator, right |-> right]
Binary(left, operator, right) ==
    [k |-> "Binary", left |-> left, operator |-> operator, right |-> right]
Call(callee, arguments) == [k |-> "Call", callee |-> callee, arguments |-> arguments]
Super(line, method)     == [k |-> "Super", keyword |-> Tok("super", line), method |-> method]
Assign(name, value)     == [k |-> "Assign", name |-> name, value |-> value]
GetAttribute(object, name) == [k |-> "GetAttribute", object |-> object, name |-> name]
Set(object, name, value) ==
    [k |-> "Set", object |-> object, name |-> name, value |-> value]
This                    == [k |-> "This", keyword |-> Tok("this", 0)]

\* ------------------------------------------------ statements (statement.rs)
\* Option<T> is a sequence of length 0 (None) or 1 (Some).
None    == <<>>
Some(x) == <<x>>

Block(statements)       == [k |-> "Block", statements |-> statements]
Expression(expression)  == [k |-> "Expression", expression |-> expression]
VarDecl(name, initializer) == [k |-> "VarDecl", name |-> name, initializer |-> initializer]
Function(name, params, body) ==
    [k |-> "Function", name |-> name, params |-> params, body |-> body]
Class(name, superclass, methods) ==
    [k |-> "Class", name |-> name, superclass |-> superclass, methods |-> methods]
If(condition, then_branch, else_branch) ==
    [k |-> "If", condition |-> condition, then_branch |-> then_branch,
     else_branch |-> else_branch]
While(condition, body)  == [k |-> "While", condition |-> condition, body |-> body]
Return(value)           == [k |-> "Return", value |-> value]
PrintStmt(expression)   == [k |-> "Print", expression |-> expression]

\* ------------------------------------------------------ values (token.rs)
Nil               == [t |-> "Nil"]
Boolean(b)        == [t |-> "Boolean", b |-> b]
\* f64 values are modelled as exact fractions n/d (d > 0, lowest terms); the
\* rounding of f64 arithmetic is not modelled
NumberValue(n)    == [t |-> "NumberValue", n |-> n, d |-> 1]
StringValue(s)    == [t |-> "StringValue", s |-> s]
NativeFunctionValue(f) == [t |-> "NativeFunctionValue", native |-> f]
LoxFunction(params, body, closure, is_initializer) ==
    [t |-> "FunctionValue", params |-> params, body |-> body, closure |-> closure,
     is_initializer |-> is_initializer]
LoxClass(name, environment, superclass) ==
    [t |-> "ClassValue", name |-> name, environment |-> environment,
     superclass |-> superclass]
LoxInstance(class, environment, name) ==
    [t |-> "InstanceValue", class |-> class, environment |-> environment,
     iname |-> name]

\* ------------------------------------------------ results (RuntimeError)
Ok(val)      == [tag |-> "Ok", val |-> val]
OkUnit       == [tag |-> "Ok", val |-> Nil]
ErrReturn(val) == [tag |-> "Return", val |-> val]
ErrRuntime(msg) == [tag |-> "Runtime", msg |-> msg]
\* the process dies: the Rust stack overflows, or a loop never ends
Abort(msg)   == [tag |-> "Abort", msg |-> msg]

\* let v = x; ...
With(x, K(_)) == K(x)

\* ------------------------------------------ Environment (environment.rs)
Environment(values, enclosing) == [values |-> values, enclosing |-> enclosing]

\* Environment::new: a fresh cell; its handle is its index in the heap
Environment_new(heap, enclosing) == Append(heap, Environment(<<>>, enclosing))

\* HashMap::insert
Insert(values, name, value) ==
    [key \in DOMAIN values \cup {name} |-> IF key = name THEN value ELSE values[key]]

define(heap, env, name, value) ==
    [heap EXCEPT ![env].values = Insert(@, name, value)]

\* the Err of get when no scope of the chain binds key
undefined_variable(key) ==
    IF key = "this" THEN ErrRuntime("this isn't bound in environment.")
    ELSE ErrRuntime("Undefined variable '" \o key \o "'.")

\* a lookup in which the outermost binding of a name hides the inner ones
RECURSIVE get_outermost(_, _, _)
get_outermost(heap, env, key) ==
    With(IF heap[env].enclosing # 0 THEN get_outermost(heap, heap[env].enclosing, key)
         ELSE undefined_variable(key),
         LAMBDA outer :
         IF outer.tag = "Ok" \/ key \notin DOMAIN heap[env].values THEN outer
         ELSE Ok(heap[env].values[key]))

RECURSIVE get(_, _, _)
get(heap, env, key) ==
    IF key \in DOMAIN heap[env].values
    THEN Ok(heap[env].values[key])
    ELSE IF heap[env].enclosing # 0
         THEN get(heap, heap[env].enclosing, key)
         ELSE undefined_variable(key)

\* an assignment that overwrites the name in every scope that binds it
RECURSIVE assign_everywhere(_, _, _, _)
assign_everywhere(heap, env, key, value) ==
    With(IF heap[env].enclosing # 0
         THEN assign_everywhere(heap, heap[env].enclosing, key, value)
         ELSE [heap |-> heap, r |-> ErrRuntime("Undefined variable '" \o key \o "'.")],
         LAMBDA outer :
         IF key \in DOMAIN heap[env].values
         THEN [heap |-> define(outer.heap, env, key, value), r |-> OkUnit]
         ELSE outer)

RECURSIVE assign(_, _, _, _)
assign(heap, env, key, value) ==
    IF key \in DOMAIN heap[env].values
    THEN [heap |-> [heap EXCEPT ![env].values = Insert(@, key, value)], r |-> OkUnit]
    ELSE IF heap[env].enclosing # 0
         THEN assign(heap, heap[env].enclosing, key, value)
         ELSE [heap |-> heap, r |-> ErrRuntime("Undefined variable '" \o key \o "'.")]

\* the scopes of a chain, innermost first, by the enclosing links
RECURSIVE Chain(_, _)
Chain(h, env) == IF env = 0 THEN <<>> ELSE <<env>> \o Chain(h, h[env].enclosing)

Min(S) == CHOOSE x \in S : \A y \in S : x <= y

\* the innermost scope of the chain of env that binds name; 0 if none does
Binder(h, env, name) ==
    LET c == Chain(h, env)
        I == { k \in DOMAIN c : name \in DOMAIN h[c[k]].values }
    IN IF I = {} THEN 0 ELSE c[Min(I)]

\* the binding of name in scope env alone: Some(value), or None
binding(heap, env, name) ==
    IF name \in DOMAIN heap[env].values THEN Some(heap[env].values[name]) ELSE None

\* what the scopes outside env hold for name
outer_binding(heap, env, name) ==
    IF heap[env].enclosing = 0 THEN undefined_variable(name)
    ELSE get(heap, heap[env].enclosing, name)

\* ------------------------------------------------- interpreter state
\* st.heap, st.environment, st.instance_counter are the program's state
\* (the Rc cells and the fields of Interpreter); st.out is what println!
\* wrote; st.depth counts the active call_function activations (the Rust
\* stack); st.now is the reading of the system clock for this statement;
\* st.frame and st.trace record what happened, for the properties only.
Res(st, r) == [st |-> st, r |-> r]
\* the `?` operator on a Result: an Err is returned at once, an Ok goes on
Try(x, K(_)) == IF x.r.tag # "Ok" THEN x ELSE K(x)
Log(st, e) == [st EXCEPT !.trace = Append(@, e)]
\* an Err(RuntimeError::Runtime(msg)) built by evaluate or execute
Fail(st, msg) ==
    Res(Log(st, [ev |-> "raise", frame |-> st.frame, msg |-> msg]), ErrRuntime(msg))

\* ------------------------------------------------- arithmetic on f64
Abs(x) == IF x < 0 THEN -x ELSE x
RECURSIVE Gcd(_, _)
Gcd(a, b) == IF b = 0 THEN a ELSE Gcd(b, a % b)
Frac(n, d) ==
    LET g == Gcd(Abs(n), Abs(d))
        s == IF d < 0 THEN -1 ELSE 1
    IN [t |-> "NumberValue", n |-> s * (n \div g), d |-> s * (d \div g)]

is_truthy(val) ==
    CASE val.t = "Nil" -> FALSE
      [] val.t = "Boolean" -> val.b
      [] OTHER -> TRUE

check_number_operand(val) ==
    IF val.t = "NumberValue" THEN Ok(val) ELSE ErrRuntime("Operand must be a number.")

check_number_operands(left, right) ==
    IF left.t = "NumberValue" /\ right.t = "NumberValue"
    THEN OkUnit
    ELSE ErrRuntime("Operands must be two numbers or two strings.")

add_values(a, b) ==
    CASE a.t = "NumberValue" /\ b.t = "NumberValue" ->
            Ok(Frac(a.n * b.d + b.n * a.d, a.d * b.d))
      [] a.t = "StringValue" /\ b.t = "StringValue" -> Ok(StringValue(a.s \o b.s))
      [] OTHER -> ErrRuntime("Operands must be two numbers or two strings.")

sub_numbers(left, right) ==
    LET c == check_number_operands(left, right)
    IN IF c.tag # "Ok" THEN c
       ELSE Ok(Frac(left.n * right.d - right.n * left.d, left.d * right.d))

mul_numbers(left, right) ==
    LET c == check_number_operands(left, right)
    IN IF c.tag # "Ok" THEN c ELSE Ok(Frac(left.n * right.n, left.d * right.d))

\* a division that leaves a zero divisor to the f64 division (an infinity or
\* a NaN, written n/0)
div_numbers_unchecked(left, right) ==
    LET c == check_number_operands(left, right)
    IN IF c.tag # "Ok" THEN c
       ELSE IF right.n = 0
            THEN Ok([t |-> "NumberValue",
                     n |-> IF left.n > 0 THEN 1 ELSE IF left.n < 0 THEN -1 ELSE 0,
                     d |-> 0])
       ELSE Ok(Frac(left.n * right.d, left.d * right.n))

div_numbers(left, right) ==
    LET c == check_number_operands(left, right)
    IN IF c.tag # "Ok" THEN c
       ELSE IF right.n = 0 THEN ErrRuntime("Division by zero.")
       ELSE Ok(Frac(left.n * right.d, left.d * right.n))

\* std::ptr::eq(a, b): a and b are references; equal iff they point to the
\* same place
ptr_eq(a, b) == a.addr = b.addr

\* a reference to the value held in the local variable `place`
Ref(place, val) == [addr |-> place, val |-> val]

\* an equality for which two instances of one class are equal
is_equal_by_class(a, b) ==
    CASE a.val.t = "InstanceValue" /\ b.val.t = "InstanceValue" ->
            a.val.class.name = b.val.class.name
      [] a.val.t = "StringValue" /\ b.val.t = "StringValue" -> a.val.s = b.val.s
      [] a.val.t = "Boolean" /\ b.val.t = "Boolean" -> a.val.b = b.val.b
      [] a.val.t = "NumberValue" /\ b.val.t = "NumberValue" ->
            a.val.n * b.val.d = b.val.n * a.val.d
      [] OTHER -> a.val.t = "Nil" /\ b.val.t = "Nil"

\* is_equal(&self, a: &Literal, b: &Literal)
is_equal(a, b) ==
    CASE a.val.t = "Nil" /\ b.val.t = "Nil" -> TRUE
      [] a.val.t = "Boolean" /\ b.val.t = "Boolean" -> a.val.b = b.val.b
      [] a.val.t = "NumberValue" /\ b.val.t = "NumberValue" ->
            \* (a - b).abs() < f64::EPSILON: two fractions whose denominators
            \* are far below 2^52 differ by less than 2^-52 only when equal
            a.val.n * b.val.d = b.val.n * a.val.d
      [] a.val.t = "StringValue" /\ b.val.t = "StringValue" -> a.val.s = b.val.s
      [] a.val.t = "FunctionValue" /\ b.val.t = "FunctionValue" -> ptr_eq(a, b)
      [] a.val.t = "ClassValue" /\ b.val.t = "ClassValue" ->
            a.val.name = b.val.name /\ ptr_eq(a, b)
      [] OTHER -> FALSE

\* Literal::type_name
type_name(val) ==
    CASE val.t = "StringValue" -> "string"
      [] val.t = "NumberValue" -> "number"
      [] val.t = "Boolean" -> "boolean"
      [] val.t = "Nil" -> "nil"
      [] val.t = "FunctionValue" -> "function"
      [] val.t = "ClassValue" -> "class"
      [] val.t = "InstanceValue" -> "instance"
      [] val.t = "None" -> "none"
      [] val.t = "NativeFunctionValue" -> "nativeFunction"

as_bool(val) ==
    IF val.t = "Boolean" THEN Ok(val)
    ELSE ErrRuntime("Operand must be boolean (got " \o type_name(val) \o ").")

logical_and(a, b) ==
    LET a_bool == as_bool(a)
        b_bool == as_bool(b)
    IN IF a_bool.tag # "Ok" THEN a_bool
       ELSE IF b_bool.tag # "Ok" THEN b_bool
       ELSE Ok(Boolean(a.b /\ b.b))

logical_or(a, b) ==
    LET a_bool == as_bool(a)
        b_bool == as_bool(b)
    IN IF a_bool.tag # "Ok" THEN a_bool
       ELSE IF b_bool.tag # "Ok" THEN b_bool
       ELSE Ok(Boolean(a.b \/ b.b))

\* comp is the name of the closure passed by evaluate
Comp(comp, x, y) ==
    CASE comp = "Greater" -> x > y
      [] comp = "GreaterEqual" -> x >= y
      [] comp = "Less" -> x < y
      [] comp = "LessEqual" -> x <= y

compare(left, right, comp) ==
    CASE left.t = "NumberValue" /\ right.t = "NumberValue" ->
            Ok(Boolean(Comp(comp, left.n * right.d, right.n * left.d)))
      [] left.t = "StringValue" /\ right.t = "StringValue" ->
            Ok(Boolean(Comp(comp, Len(left.s), Len(right.s))))
      [] OTHER -> ErrRuntime("Operands must be numbers or strings.")

\* the text println! writes for a value
stringify(value) ==
    CASE value.t = "Nil" -> "nil"
      [] value.t = "Boolean" -> IF value.b THEN "true" ELSE "false"
      [] value.t = "NumberValue" ->
            IF value.d = 1 THEN ToString(value.n)
            ELSE ToString(value.n) \o "/" \o ToString(value.d)
      [] value.t = "StringValue" -> value.s
      [] value.t = "FunctionValue" -> "call fn"
      [] value.t = "ClassValue" -> "<class " \o value.name \o ">"
      [] value.t = "InstanceValue" -> "<instance of " \o value.class.name \o ">"
      [] value.t = "NativeFunctionValue" -> "call native fn"

\* ------------------------------------------------- classes (token.rs)
RECURSIVE find_method(_, _, _)
find_method(heap, cls, name) ==
    LET g == get(heap, cls.environment, name)
    IN CASE g.tag = "Ok" /\ g.val.t = "FunctionValue" -> Some(g.val)
         [] g.tag = "Ok" -> None
         [] OTHER ->
              IF cls.superclass = None THEN None
              ELSE find_method(heap, cls.superclass[1], name)

\* a binding that defines `this` in the field store of the instance and
\* gives the function an empty scope over it
bind_in_field_store(heap, func, instance) ==
    [heap |-> Append(define(heap, instance.environment, "this", instance),
                     Environment(<<>>, instance.environment)),
     func |-> LoxFunction(func.params, func.body, Len(heap) + 1, func.is_initializer)]

\* a binding of `this` in a scope that encloses the closure the method was
\* declared with
bind_over_closure(heap, func, instance) ==
    LET heap1   == Append(heap, Environment(<<>>, func.closure))
        new_env == Len(heap1)
    IN [heap |-> define(heap1, new_env, "this", instance),
        func |-> LoxFunction(func.params, func.body, new_env, func.is_initializer)]

\* a binding of `this` to a copy of the instance, with a field store of its
\* own
bind_to_copy(heap, func, instance) ==
    [heap |-> Append(Append(heap, Environment(heap[instance.environment].values, 0)),
                     Environment("this" :> [instance EXCEPT !.environment = Len(heap) + 1],
                                 Len(heap) + 1)),
     func |-> LoxFunction(func.params, func.body, Len(heap) + 2, func.is_initializer)]

\* a bind that also hangs the instance's field store under the closure of the
\* method
bind_reparenting(heap, func, instance) ==
    LET heap0   == [heap EXCEPT ![instance.environment].enclosing = func.closure]
        heap1   == Append(heap0, Environment(<<>>, instance.environment))
        new_env == Len(heap1)
    IN [heap |-> define(heap1, new_env, "this", instance),
        func |-> LoxFunction(func.params, func.body, new_env, func.is_initializer)]

\* LoxFunction::bind; the new cell is the last of the returned heap
bind(heap, func, instance) ==
    LET heap1   == Append(heap, Environment(<<>>, instance.environment))
        new_env == Len(heap1)
    IN [heap |-> define(heap1, new_env, "this", instance),
        func |-> LoxFunction(func.params, func.body, new_env, func.is_initializer)]

\* ------------------------------------------------- the evaluator
\* a Result computed without touching the interpreter, returned from st
Lift(st, r) == IF r.tag = "Ok" THEN Res(st, r) ELSE Fail(st, r.msg)

get_call_name(expr) == IF expr.k = "GetAttribute" THEN expr.name ELSE ""

\* the native clock registered by Interpreter::new
clock(args, st) ==
    IF Len(args) # 0 THEN Fail(st, "Expected 0 arguments")
    ELSE Res(st, Ok(NumberValue(st.now)))

RECURSIVE evaluate(_, _), evaluate_args(_, _), execute(_, _), execute_block(_, _),
          call_function(_, _, _), call_class_constructor(_, _, _),
          evaluate_Unary(_, _), evaluate_Binary(_, _), evaluate_Call(_, _),
          evaluate_Super(_, _), evaluate_GetAttribute(_, _), evaluate_Assign(_, _),
          evaluate_Set(_, _), evaluate_This(_, _), evaluate_Variable(_, _),
          execute_Expression(_, _), execute_Print(_, _), execute_VarDecl(_, _),
          execute_Block(_, _), execute_If(_, _), execute_While(_, _, _),
          execute_Function(_, _), execute_Class(_, _), execute_Return(_, _),
          try_for_each(_, _)

evaluate_Variable(expr, st) ==
    With(get(st.heap, st.environment, expr.name), LAMBDA g :
    Lift(Log(st, [ev |-> "lookup", frame |-> st.frame, scope |-> st.environment,
                  name |-> expr.name,
                  binder |-> Binder(st.heap, st.environment, expr.name),
                  res |-> g]),
         g))

\* the value of `op right` once the operand is evaluated
unary_op(operator, right_val) ==
    CASE operator = "Minus" ->
            With(check_number_operand(right_val),
                 LAMBDA c : IF c.tag # "Ok" THEN c ELSE Ok(Frac(-c.val.n, c.val.d)))
      [] operator = "Bang" -> Ok(Boolean(~is_truthy(right_val)))

evaluate_Unary(expr, st) ==
    Try(evaluate(expr.right, st),
        LAMBDA right : Lift(right.st, unary_op(expr.operator, right.r.val)))

\* the value of `left op right` once both operands are evaluated
binary_op(operator, left_val, right_val) ==
    CASE operator = "Plus"  -> add_values(left_val, right_val)
      [] operator = "Minus" -> sub_numbers(left_val, right_val)
      [] operator = "Star"  -> mul_numbers(left_val, right_val)
      [] operator = "Slash" -> div_numbers(left_val, right_val)
      [] operator \in {"Greater", "GreaterEqual", "Less", "LessEqual"} ->
            compare(left_val, right_val, operator)
      [] operator = "EqualEqual" ->
            Ok(Boolean(is_equal(Ref("left_val", left_val), Ref("right_val", right_val))))
      [] operator = "BangEqual" ->
            Ok(Boolean(~is_equal(Ref("left_val", left_val), Ref("right_val", right_val))))
      [] operator = "And" -> logical_and(left_val, right_val)
      [] operator = "Or"  -> logical_or(left_val, right_val)
      [] OTHER -> ErrRuntime("Invalid operator.")

\* a binary expression whose `and` and `or` skip the right operand when the
\* left one decides the result
evaluate_Binary_short_circuit(expr, st) ==
    Try(evaluate(expr.left, st), LAMBDA left :
    IF /\ left.r.val.t = "Boolean"
       /\ \/ expr.operator = "And" /\ ~left.r.val.b
          \/ expr.operator = "Or" /\ left.r.val.b
    THEN Res(Log(left.st, [ev |-> "binary", operator |-> expr.operator,
                           left_expr |-> expr.left, right_expr |-> expr.right,
                           left |-> left.r.val, right |-> left.r.val,
                           res |-> Ok(left.r.val)]),
             Ok(left.r.val))
    ELSE Try(evaluate(expr.right, left.st), LAMBDA right :
         With(binary_op(expr.operator, left.r.val, right.r.val), LAMBDA v :
         Lift(Log(right.st, [ev |-> "binary", operator |-> expr.operator,
                             left_expr |-> expr.left, right_expr |-> expr.right,
                             left |-> left.r.val, right |-> right.r.val, res |-> v]),
              v))))

evaluate_Binary(expr, st) ==
    Try(evaluate(expr.left, st), LAMBDA left :
    Try(evaluate(expr.right, left.st), LAMBDA right :
    With(binary_op(expr.operator, left.r.val, right.r.val), LAMBDA v :
    Lift(Log(right.st, [ev |-> "binary", operator |-> expr.operator,
                        left_expr |-> expr.left, right_expr |-> expr.right,
                        left |-> left.r.val, right |-> right.r.val, res |-> v]),
         v))))

\* what evaluate_args notes once the first of exprs is evaluated, from st:
\* its value, or that it failed
arg_evaluated(exprs, st, first) ==
    IF first.r.tag = "Abort" THEN first.st
    ELSE IF first.r.tag # "Ok"
    THEN Log(first.st, [ev |-> "arg_failed", frame |-> st.frame,
                        from |-> Len(st.trace), left |-> Len(exprs) - 1])
    ELSE Log(first.st, [ev |-> "arg", frame |-> st.frame, from |-> Len(st.trace),
                        left |-> Len(exprs) - 1, val |-> first.r.val])

\* arguments evaluated from the last to the first
RECURSIVE evaluate_args_right_to_left(_, _)
evaluate_args_right_to_left(exprs, st) ==
    IF exprs = <<>> THEN Res(st, [tag |-> "Ok", vals |-> <<>>])
    ELSE Try(evaluate_args_right_to_left(Tail(exprs), st), LAMBDA rest :
         With(evaluate(Head(exprs), rest.st), LAMBDA first :
         IF first.r.tag # "Ok" THEN Res(arg_evaluated(exprs, rest.st, first), first.r)
         ELSE Res(arg_evaluated(exprs, rest.st, first),
                  [tag |-> "Ok", vals |-> <<first.r.val>> \o rest.r.vals])))

\* exprs.iter().map(|expr| self.evaluate(expr)).collect(): the first error
\* ends the iteration
evaluate_args(exprs, st) ==
    IF exprs = <<>> THEN Res(st, [tag |-> "Ok", vals |-> <<>>])
    ELSE With(evaluate(Head(exprs), st), LAMBDA first :
         IF first.r.tag # "Ok" THEN Res(arg_evaluated(exprs, st, first), first.r)
         ELSE Try(evaluate_args(Tail(exprs), arg_evaluated(exprs, st, first)),
                  LAMBDA rest :
              Res(rest.st, [tag |-> "Ok", vals |-> <<first.r.val>> \o rest.r.vals])))

\* self.call_function(&bound, args), bound being the result b of bind
call_bound(b, args, st) == call_function(b.func, args, [st EXCEPT !.heap = b.heap])

\* the Instance arm of Expr::Call: the method named by the callee expression
call_method(instance, method_name, args, st) ==
    With(find_method(st.heap, instance.class, method_name), LAMBDA m :
    With(Log(st, [ev |-> "call_instance", frame |-> st.frame, callee |-> instance,
                  method_name |-> method_name, method |-> m,
                  bound |-> IF m = None THEN 0 ELSE Len(st.heap) + 1]), LAMBDA s :
    IF m # None THEN call_bound(bind(s.heap, m[1], instance), args, s)
    ELSE Fail(s, "Undefined property '" \o method_name \o "'.")))

\* the callee of a call failed
callee_failed(st, callee) ==
    IF callee.r.tag = "Abort" THEN callee
    ELSE Res(Log(callee.st, [ev |-> "callee_failed", frame |-> st.frame,
                             from |-> Len(st.trace)]),
             callee.r)

evaluate_Call(expr, st) ==
    With(evaluate(expr.callee, st), LAMBDA callee :
    IF callee.r.tag # "Ok" THEN callee_failed(st, callee)
    ELSE
    Try(evaluate_args(expr.arguments, callee.st), LAMBDA a :
    With(Log(a.st, [ev |-> "dispatch", frame |-> st.frame, callee |-> callee.r.val,
                    args |-> a.r.vals, start |-> Len(st.trace),
                    callee_done |-> Len(callee.st.trace)]),
         LAMBDA s :
    CASE callee.r.val.t = "FunctionValue" -> call_function(callee.r.val, a.r.vals, s)
      [] callee.r.val.t = "ClassValue" ->
            call_class_constructor(callee.r.val, a.r.vals, s)
      [] callee.r.val.t = "InstanceValue" ->
            call_method(callee.r.val, get_call_name(expr.callee), a.r.vals, s)
      [] callee.r.val.t = "NativeFunctionValue" -> clock(a.r.vals, s)
      [] OTHER -> Fail(s, "Can only call functions and classes."))))

\* Ok(FunctionValue(func.bind(instance))), b being the result of bind
bound_func(st, b) == Res([st EXCEPT !.heap = b.heap], Ok(b.func))

evaluate_Super(expr, st) ==
    With(get(st.heap, st.environment, expr.keyword.lexeme), LAMBDA sup :
    IF sup.tag # "Ok" THEN Fail(st, sup.msg)
    ELSE IF sup.val.t # "ClassValue" THEN Fail(st, "Invalid super class.")
    ELSE With(get(st.heap, st.environment, "this"), LAMBDA this :
    IF this.tag # "Ok" THEN Fail(st, this.msg)
    ELSE IF this.val.t # "InstanceValue"
         THEN Fail(st, "super must be used in instance method.")
    ELSE With(Log(st, [ev |-> "super", frame |-> st.frame,
                       line |-> expr.keyword.line,
                       super_class |-> sup.val.name,
                       this_class |-> this.val.class.name,
                       this |-> this.val, method |-> expr.method,
                       bound |-> Len(st.heap) + 1]), LAMBDA s1 :
         With(find_method(st.heap, sup.val, expr.method), LAMBDA method :
         IF method = None
         THEN Fail(s1, "Undefined property '" \o expr.method \o "'.")
         ELSE bound_func(s1, bind(s1.heap, method[1], this.val))))))

\* a property access that prefers the methods of the class to the fields
read_attribute_method_first(instance, name, st) ==
    With(find_method(st.heap, instance.class, name), LAMBDA m :
    IF m # None THEN bound_func(st, bind(st.heap, m[1], instance))
    ELSE Lift(st, get(st.heap, instance.environment, name)))

\* the attribute `name` of an instance: a field, else a method bound to it
read_attribute(instance, name, st) ==
    With(get(st.heap, instance.environment, name), LAMBDA field :
    IF field.tag = "Ok" THEN Res(st, field)
    ELSE With(find_method(st.heap, instance.class, name), LAMBDA m :
         IF m # None THEN bound_func(st, bind(st.heap, m[1], instance))
         ELSE Fail(st, "Undefined property '" \o name \o "'.")))

get_attribute(instance, name, st) ==
    With(read_attribute(instance, name, st), LAMBDA a :
    Res(Log(a.st, [ev |-> "getattr", frame |-> st.frame, instance |-> instance,
                   name |-> name,
                   field |-> binding(st.heap, instance.environment, name),
                   method |-> find_method(st.heap, instance.class, name),
                   res |-> a.r]),
        a.r))

evaluate_GetAttribute(expr, st) ==
    Try(evaluate(expr.object, st), LAMBDA obj :
    IF obj.r.val.t # "InstanceValue"
    THEN Fail(obj.st, "Only instances have attributes.")
    ELSE get_attribute(obj.r.val, expr.name, obj.st))

evaluate_Assign(expr, st) ==
    Try(evaluate(expr.value, st), LAMBDA val :
    With(assign(val.st.heap, val.st.environment, expr.name, val.r.val), LAMBDA a :
    IF a.r.tag # "Ok" THEN Fail(val.st, a.r.msg)
    ELSE Res(Log([val.st EXCEPT !.heap = a.heap],
                 [ev |-> "assign", frame |-> st.frame, name |-> expr.name,
                  val |-> val.r.val, value_expr |-> expr.value,
                  res |-> Ok(val.r.val)]),
             Ok(val.r.val))))

\* a field write that works on a copy of the instance's field store
set_field_on_copy(heap, instance, name, value) ==
    Append(heap, Environment(Insert(heap[instance.environment].values, name, value), 0))

\* instance.environment.borrow_mut().define(name, val)
set_field(heap, instance, name, value) ==
    define(heap, instance.environment, name, value)

\* a field assignment that evaluates to the assigned value
set_result_is_value(instance, val) == Ok(val)

\* Ok(Literal::InstanceValue(instance))
set_result(instance, val) == Ok(instance)

evaluate_Set(expr, st) ==
    Try(evaluate(expr.object, st), LAMBDA obj :
    Try(evaluate(expr.value, obj.st), LAMBDA val :
    IF obj.r.val.t # "InstanceValue"
    THEN Fail(val.st, "Only instances can have fields.")
    ELSE With(set_result(obj.r.val, val.r.val), LAMBDA res :
         Res(Log([val.st EXCEPT !.heap = set_field(@, obj.r.val, expr.name,
                                                   val.r.val)],
                 [ev |-> "set", frame |-> st.frame, instance |-> obj.r.val,
                  name |-> expr.name, val |-> val.r.val,
                  value_expr |-> expr.value, res |-> res]),
             res))))

evaluate_This(expr, st) ==
    With(get(st.heap, st.environment, expr.keyword.lexeme), LAMBDA this_value :
    IF this_value.tag # "Ok" THEN Fail(st, this_value.msg)
    ELSE IF this_value.val.t = "InstanceValue" THEN Res(st, this_value)
    ELSE Fail(st, "Invalid 'this' context."))

evaluate(expr, st) ==
    CASE expr.k = "Literal"      -> Res(st, Ok(expr.value))
      [] expr.k = "Variable"     -> evaluate_Variable(expr, st)
      [] expr.k = "Grouping"     -> evaluate(expr.expression, st)
      [] expr.k = "Unary"        -> evaluate_Unary(expr, st)
      [] expr.k = "Binary"       -> evaluate_Binary(expr, st)
      [] expr.k = "Call"         -> evaluate_Call(expr, st)
      [] expr.k = "Super"        -> evaluate_Super(expr, st)
      [] expr.k = "GetAttribute" -> evaluate_GetAttribute(expr, st)
      [] expr.k = "Assign"       -> evaluate_Assign(expr, st)
      [] expr.k = "Set"          -> evaluate_Set(expr, st)
      [] expr.k = "This"         -> evaluate_This(expr, st)

execute_Expression(stmt, st) ==
    Try(evaluate(stmt.expression, st), LAMBDA e : Res(e.st, OkUnit))

execute_Print(stmt, st) ==
    Try(evaluate(stmt.expression, st), LAMBDA value :
    Res([value.st EXCEPT !.out = Append(@, stringify(value.r.val))], OkUnit))

\* a declaration that overwrites the binding the scope already has
declare_var_overwriting(stmt, st) ==
    Try(IF stmt.initializer = None THEN Res(st, Ok(Nil))
        ELSE evaluate(stmt.initializer[1], st),
        LAMBDA value :
        Res([value.st EXCEPT !.heap = define(@, value.st.environment,
                                             stmt.name, value.r.val)],
            OkUnit))

\* the VarDecl arm of execute
declare_var(stmt, st) ==
    IF stmt.name \in DOMAIN st.heap[st.environment].values
    THEN Fail(st, "Error: Already a variable with name '" \o stmt.name
                      \o "' in this scope.")
    ELSE Try(IF stmt.initializer = None THEN Res(st, Ok(Nil))
             ELSE evaluate(stmt.initializer[1], st),
             LAMBDA value :
             Res([value.st EXCEPT !.heap = define(@, value.st.environment,
                                                  stmt.name, value.r.val)],
                 OkUnit))

execute_VarDecl(stmt, st) ==
    With(declare_var(stmt, st), LAMBDA d :
    IF d.r.tag = "Abort" THEN d
    ELSE Res(Log(d.st, [ev |-> "vardecl", frame |-> st.frame,
                        scope |-> st.environment, name |-> stmt.name,
                        was |-> binding(st.heap, st.environment, stmt.name),
                        now |-> binding(d.st.heap, st.environment, stmt.name),
                        outer_was |-> outer_binding(st.heap, st.environment, stmt.name),
                        outer_now |-> outer_binding(d.st.heap, st.environment,
                                                    stmt.name),
                        tag |-> d.r.tag]),
             d.r))

\* a block that leaves the current environment as it is when it ends
Restore_none(st) == st

\* the environment the code restores at the end of a block: the enclosing
\* environment of whatever is current then
Restore(st) == [st EXCEPT !.environment = st.heap[st.environment].enclosing]

\* self.environment = Environment::new(Some(previous))
enter_scope(st) ==
    [st EXCEPT !.heap = Environment_new(st.heap, st.environment),
               !.environment = Len(st.heap) + 1]

\* the end of a block entered from st with result `result`; kind names the
\* code that ran it
leave_scope(kind, st, result) ==
    IF result.r.tag = "Abort" THEN result
    ELSE With(Restore(result.st), LAMBDA s1 :
         Res(Log(s1, [ev |-> kind, frame |-> st.frame, before |-> st.environment,
                      inner |-> Len(st.heap) + 1, after |-> s1.environment,
                      tag |-> result.r.tag]),
             result.r))

execute_Block(stmt, st) ==
    leave_scope("block", st, execute_block(stmt.statements, enter_scope(st)))

\* stmts.iter().try_for_each(|stmt| self.execute(stmt))
try_for_each(stmts, st) ==
    IF stmts = <<>> THEN Res(st, OkUnit)
    ELSE Try(execute(Head(stmts), st),
             LAMBDA first : try_for_each(Tail(stmts), first.st))

execute_block(stmts, st) ==
    leave_scope("execute_block", st, try_for_each(stmts, enter_scope(st)))

\* the branch an If statement takes once its condition is evaluated
execute_branch(stmt, cond_val, st) ==
    IF is_truthy(cond_val) THEN execute(stmt.then_branch, st)
    ELSE IF stmt.else_branch = None THEN Res(st, OkUnit)
    ELSE execute(stmt.else_branch[1], st)

execute_If(stmt, st) ==
    Try(evaluate(stmt.condition, st),
        LAMBDA cond_result : execute_branch(stmt, cond_result.r.val, cond_result.st))

\* n is the number of iterations the loop has completed
execute_While(stmt, st, n) ==
    Try(evaluate(stmt.condition, st), LAMBDA cond :
    IF ~is_truthy(cond.r.val) THEN Res(cond.st, OkUnit)
    ELSE IF n >= MaxIter THEN Res(cond.st, Abort("the loop does not end"))
    ELSE Try(execute(stmt.body, cond.st),
             LAMBDA body : execute_While(stmt, body.st, n + 1)))

\* a function value whose closure is the declaring environment itself: its
\* own name is found, if at all, in the scopes of the declaration
declare_function_in_scope(stmt, st, heap1) ==
    Res([st EXCEPT !.heap = define(heap1, st.environment, stmt.name,
                                   LoxFunction(stmt.params, stmt.body,
                                               st.environment, FALSE))],
        OkUnit)

\* the function value of a declaration, defined in its own closure cell
\* (the last of heap1) and then in the current environment
declare_function(stmt, st, heap1) ==
    With(LoxFunction(stmt.params, stmt.body, Len(heap1), FALSE), LAMBDA func :
    With(assign(define(heap1, Len(heap1), stmt.name, Nil), Len(heap1), stmt.name, func),
         LAMBDA a :
    IF a.r.tag # "Ok" THEN Fail([st EXCEPT !.heap = a.heap], a.r.msg)
    ELSE Res([st EXCEPT !.heap = define(a.heap, st.environment, stmt.name, func)],
             OkUnit)))

execute_Function(stmt, st) ==
    declare_function(stmt, st, Environment_new(st.heap, st.environment))

\* the loop over the methods of a class declaration
RECURSIVE define_methods(_, _, _)
define_methods(heap, class_env, methods) ==
    IF methods = <<>> THEN heap
    ELSE define_methods(
             IF Head(methods).k = "Function"
             THEN define(heap, class_env, Head(methods).name,
                         LoxFunction(Head(methods).params, Head(methods).body,
                                     class_env, Head(methods).name = "init"))
             ELSE heap,
             class_env, Tail(methods))

\* class_env.define("super", ...) when there is a superclass
define_super(heap, class_env, super_class) ==
    IF super_class # None THEN define(heap, class_env, "super", super_class[1])
    ELSE heap

\* the class value of a declaration; its class_env is the last cell of heap1
declare_class(stmt, super_class, st, heap1) ==
    Res([st EXCEPT !.heap =
            define(define_methods(define_super(heap1, Len(heap1), super_class),
                                  Len(heap1), stmt.methods),
                   st.environment, stmt.name,
                   LoxClass(stmt.name, Len(heap1), super_class))],
        OkUnit)

execute_Class(stmt, st) ==
    IF stmt.superclass = None
    THEN declare_class(stmt, None, st, Environment_new(st.heap, st.environment))
    ELSE Try(evaluate(stmt.superclass[1], st), LAMBDA sup :
         IF sup.r.val.t # "ClassValue"
         THEN Fail(sup.st, "Superclass must be a class.")
         ELSE declare_class(stmt, Some(sup.r.val), sup.st,
                            Environment_new(sup.st.heap, sup.st.environment)))

execute_Return(stmt, st) ==
    Try(IF stmt.value = None THEN Res(st, Ok(Nil)) ELSE evaluate(stmt.value[1], st),
        LAMBDA return_value :
        Res(Log(return_value.st, [ev |-> "return", frame |-> st.frame,
                                  val |-> return_value.r.val]),
            ErrReturn(return_value.r.val)))

execute_stmt(stmt, st) ==
    CASE stmt.k = "Expression" -> execute_Expression(stmt, st)
      [] stmt.k = "Print"      -> execute_Print(stmt, st)
      [] stmt.k = "VarDecl"    -> execute_VarDecl(stmt, st)
      [] stmt.k = "Block"      -> execute_Block(stmt, st)
      [] stmt.k = "If"         -> execute_If(stmt, st)
      [] stmt.k = "While"      -> execute_While(stmt, st, 0)
      [] stmt.k = "Function"   -> execute_Function(stmt, st)
      [] stmt.k = "Class"      -> execute_Class(stmt, st)
      [] stmt.k = "Return"     -> execute_Return(stmt, st)

execute(stmt, st) ==
    execute_stmt(stmt, Log(st, [ev |-> "exec", frame |-> st.frame, k |-> stmt.k]))

\* a binding of the parameters that binds those without an argument to nil
RECURSIVE bind_params_padding(_, _, _, _)
bind_params_padding(heap, call_env, params, args) ==
    IF params = <<>> THEN heap
    ELSE bind_params_padding(
             define(heap, call_env, Head(params),
                    IF args = <<>> THEN Nil ELSE Head(args)),
             call_env, Tail(params), IF args = <<>> THEN <<>> ELSE Tail(args))

\* for (param, arg) in func.params.iter().zip(args.iter())
RECURSIVE bind_params(_, _, _, _)
bind_params(heap, call_env, params, args) ==
    IF params = <<>> \/ args = <<>> THEN heap
    ELSE bind_params(define(heap, call_env, Head(params), Head(args)), call_env,
                     Tail(params), Tail(args))

\* a call that works on a copy of the closure's chain of scopes, not on the
\* scopes themselves
RECURSIVE CopyChain(_, _)
CopyChain(heap, env) ==
    IF env = 0 THEN [heap |-> heap, env |-> 0]
    ELSE With(CopyChain(heap, heap[env].enclosing), LAMBDA outer :
         [heap |-> Append(outer.heap, Environment(heap[env].values, outer.env)),
          env  |-> Len(outer.heap) + 1])
new_call_env_copying(heap, func) ==
    With(CopyChain(heap, func.closure), LAMBDA c : Environment_new(c.heap, c.env))

\* let call_env = Environment::new(Some(Rc::clone(&func.closure)));
\* the new cell is the last of the returned heap
new_call_env(heap, func) == Environment_new(heap, func.closure)

\* what call_function returns for the result of the body
call_result(func, result) ==
    IF func.is_initializer THEN Ok(Nil)
    ELSE CASE result.tag = "Ok" -> Ok(Nil)
           [] result.tag = "Return" -> Ok(result.val)
           [] OTHER -> result

\* the body of func run in call_env, the last cell of heap1
\* a body run in a scope that encloses the scope of the call site instead of
\* the closure of the function
run_body_dynamic(func, args, st, heap1) ==
    execute_block(func.body,
                  [st EXCEPT !.heap = bind_params([heap1 EXCEPT ![Len(heap1)].enclosing =
                                                                    st.environment],
                                                  Len(heap1), func.params, args),
                             !.environment = Len(heap1), !.depth = @ + 1,
                             !.frame = Len(heap1)])

run_body(func, args, st, heap1) ==
    execute_block(func.body,
                  [st EXCEPT !.heap = bind_params(heap1, Len(heap1), func.params, args),
                             !.environment = Len(heap1), !.depth = @ + 1,
                             !.frame = Len(heap1)])

\* the end of a call entered from st whose body gave `result`
end_call(func, args, st, result) ==
    IF result.r.tag = "Abort" THEN result
    ELSE With([result.st EXCEPT !.environment = st.environment, !.depth = st.depth,
                                !.frame = st.frame], LAMBDA s1 :
         With(call_result(func, result.r), LAMBDA r :
         Res(Log(s1, [ev |-> "call_function", frame |-> Len(st.heap) + 1,
                      caller |-> st.frame, func |-> func, args |-> args,
                      before |-> st.environment, after |-> s1.environment,
                      body_r |-> result.r, res |-> r]),
             r)))

call_function(func, args, st) ==
    IF st.depth >= MaxDepth THEN Res(st, Abort("stack overflow"))
    ELSE end_call(func, args, st, run_body(func, args, st, new_call_env(st.heap, func)))

\* format!("{}#{}", cls.name, self.instance_counter)
instance_name(cls, instance_counter) == cls.name \o "#" \o ToString(instance_counter)

\* the copy of the class environment's `super` into the instance environment
copy_super(heap, cls, instance_env) ==
    With(get(heap, cls.environment, "super"), LAMBDA super_value :
    IF super_value.tag = "Ok" THEN define(heap, instance_env, "super", super_value.val)
    ELSE heap)

\* a constructor call that evaluates to what init evaluates to
constructor_result_of_init(instance, called) == called

\* self.call_function(&bound_init, args, paren)?; Ok(InstanceValue(instance))
constructor_result(instance, called) ==
    IF called.tag # "Ok" THEN called ELSE Ok(instance)

\* if let Some(FunctionValue(init)) = cls.find_method("init") { ... }
run_init(init, instance, args, st) ==
    IF init = None THEN Res(st, OkUnit)
    ELSE call_bound(bind(st.heap, init[1], instance), args, st)

\* the end of a constructor call entered from st
end_constructor(instance, init, args, st, called) ==
    IF called.r.tag = "Abort" THEN called
    ELSE With(constructor_result(instance, called.r), LAMBDA res :
         Res(Log(called.st, [ev |-> "call_class_constructor", frame |-> st.frame,
                             instance |-> instance, init |-> init, args |-> args,
                             bound |-> IF init = None THEN 0 ELSE Len(st.heap) + 1,
                             fields |-> called.st.heap[instance.environment].values,
                             before |-> st.environment,
                             after |-> called.st.environment,
                             called |-> called.r, res |-> res]),
             res))

\* the instance is made in st, whose heap ends with the instance environment
construct(instance, init, args, st) ==
    end_constructor(instance, init, args, st, run_init(init, instance, args, st))

call_class_constructor(cls, args, st) ==
    With([st EXCEPT !.heap = copy_super(Environment_new(st.heap, 0), cls,
                                        Len(st.heap) + 1),
                    !.instance_counter = @ + 1], LAMBDA s1 :
    construct(LoxInstance(cls, Len(st.heap) + 1,
                          instance_name(cls, st.instance_counter)),
              find_method(s1.heap, cls, "init"), args, s1))

\* ------------------------------------------------- programs
\* A program is a prelude followed by at most MaxStmts statements drawn, in
\* any order and with repetition, from the pool of its scenario.
Num(n) == Lit(NumberValue(n))
Str(s) == Lit(StringValue(s))
CallStmt(callee, arguments) == Expression(Call(callee, arguments))

\* fun makeCounter() { var i = 0; fun inc() { i = i + 1; return i; } return inc; }
MakeCounter ==
    Function("makeCounter", <<>>,
        << VarDecl("i", Some(Num(0))),
           Function("inc", <<>>,
               << Expression(Assign("i", Binary(Var("i"), "Plus", Num(1)))),
                  Return(Some(Var("i"))) >>),
           Return(Some(Var("inc"))) >>)

\* var c = makeCounter();  then any of:
\*   print c();   var d = makeCounter();   print d();
Closures ==
    [name |-> "Closures",
     prelude |-> << MakeCounter, VarDecl("c", Some(Call(Var("makeCounter"), <<>>))) >>,
     pool    |-> << PrintStmt(Call(Var("c"), <<>>)),
                    VarDecl("d", Some(Call(Var("makeCounter"), <<>>))),
                    PrintStmt(Call(Var("d"), <<>>)) >>]

\* class A { m() { print "A.m"; } }
\* class B < A { m() { print "B.m"; super.m(); } }      (the `super` of line 2)
\* class C < B { }
\* then any of:
\*   B().m();   C().m();   fun n() { print "n"; }   C().n();   var m = 1;
MethodCall(class, method) ==
    CallStmt(GetAttribute(Call(Var(class), <<>>), method), <<>>)
Classes ==
    [name |-> "Classes",
     prelude |-> << Class("A", None, << Function("m", <<>>, << PrintStmt(Str("A.m")) >>) >>),
                    Class("B", Some(Var("A")),
                          << Function("m", <<>>, << PrintStmt(Str("B.m")),
                                                    CallStmt(Super(2, "m"), <<>>) >>) >>),
                    Class("C", Some(Var("B")), <<>>) >>,
     pool    |-> << MethodCall("B", "m"),
                    MethodCall("C", "m"),
                    Function("n", <<>>, << PrintStmt(Str("n")) >>),
                    MethodCall("C", "n"),
                    VarDecl("m", Some(Num(1))) >>]

\* class P { init(x) { this.x = x; if (x == 1) { return; } if (x == 2) { return 7; }
\*                     if (x == 3) { print nope; } { this.done = true; } } }
\* class N { }
\* var p = P(0);
\* then any of:
\*   print P(1).x;  print P(2).x;  print P(3).x;  print N();  print p.init(2);
Construct(x) == Call(Var("P"), << Num(x) >>)
Constructors ==
    [name |-> "Constructors",
     prelude |-> << Class("P", None,
                       << Function("init", << "x" >>,
                            << Expression(Set(This, "x", Var("x"))),
                               If(Binary(Var("x"), "EqualEqual", Num(1)),
                                  Block(<< Return(None) >>), None),
                               If(Binary(Var("x"), "EqualEqual", Num(2)),
                                  Block(<< Return(Some(Num(7))) >>), None),
                               If(Binary(Var("x"), "EqualEqual", Num(3)),
                                  Block(<< PrintStmt(Var("nope")) >>), None),
                               Block(<< Expression(Set(This, "done",
                                                       Lit(Boolean(TRUE)))) >>) >>) >>),
                    Class("N", None, <<>>),
                    VarDecl("p", Some(Construct(0))) >>,
     pool    |-> << PrintStmt(GetAttribute(Construct(1), "x")),
                    PrintStmt(GetAttribute(Construct(2), "x")),
                    PrintStmt(GetAttribute(Construct(3), "x")),
                    PrintStmt(Call(Var("N"), <<>>)),
                    PrintStmt(Call(GetAttribute(Var("p"), "init"), << Num(2) >>)) >>]

\* fun f(n) { while (n < 3) { if (n > 0) { { return n; } } n = n + 1; print "iter"; }
\*            print "after"; }
\* var x = 1;
\* then any of:
\*   print f(0);   print f(1);   print f(3);
\*   { var x = 2; { x = 3; var y = x; print y; } print nope; }
\*   print f(nope);
ControlF ==
    Function("f", << "n" >>,
        << While(Binary(Var("n"), "Less", Num(3)),
                 Block(<< If(Binary(Var("n"), "Greater", Num(0)),
                             Block(<< Block(<< Return(Some(Var("n"))) >>) >>), None),
                          Expression(Assign("n", Binary(Var("n"), "Plus", Num(1)))),
                          PrintStmt(Str("iter")) >>)),
           PrintStmt(Str("after")) >>)
Control ==
    [name |-> "Control",
     prelude |-> << ControlF, VarDecl("x", Some(Num(1))) >>,
     pool    |-> << PrintStmt(Call(Var("f"), << Num(0) >>)),
                    PrintStmt(Call(Var("f"), << Num(1) >>)),
                    PrintStmt(Call(Var("f"), << Num(3) >>)),
                    Block(<< VarDecl("x", Some(Num(2))),
                             Block(<< Expression(Assign("x", Num(3))),
                                      VarDecl("y", Some(Var("x"))),
                                      PrintStmt(Var("y")) >>),
                             PrintStmt(Var("nope")) >>),
                    PrintStmt(Call(Var("f"), << Var("nope") >>)) >>]

\* fun f() { }   class K { init() { this.v = 1; } }
\* var a = K();   var b = a;   var g = f;
\* then any of:
\*   print a == b;   print f == g;   print K == K;   print a != a;   print a == K();
Equal(l, op, r) == PrintStmt(Binary(l, op, r))
Equality ==
    [name |-> "Equality",
     prelude |-> << Function("f", <<>>, <<>>),
                    Class("K", None,
                          << Function("init", <<>>,
                                      << Expression(Set(This, "v", Num(1))) >>) >>),
                    VarDecl("a", Some(Call(Var("K"), <<>>))),
                    VarDecl("b", Some(Var("a"))),
                    VarDecl("g", Some(Var("f"))) >>,
     pool    |-> << Equal(Var("a"), "EqualEqual", Var("b")),
                    Equal(Var("f"), "EqualEqual", Var("g")),
                    Equal(Var("K"), "EqualEqual", Var("K")),
                    Equal(Var("a"), "BangEqual", Var("a")),
                    Equal(Var("a"), "EqualEqual", Call(Var("K"), <<>>)) >>]

\* fun sum(n) { if (n <= 0) return 0; return n + sum(n - 1); }
\* var g = sum;
\* then any of:
\*   print sum(3);   sum = 1;   print g(3);   { var sum = nil; print g(2); }
SumF ==
    Function("sum", << "n" >>,
        << If(Binary(Var("n"), "LessEqual", Num(0)), Return(Some(Num(0))), None),
           Return(Some(Binary(Var("n"), "Plus",
                              Call(Var("sum"), << Binary(Var("n"), "Minus", Num(1)) >>)))) >>)
Recursion ==
    [name |-> "Recursion",
     prelude |-> << SumF, VarDecl("g", Some(Var("sum"))) >>,
     pool    |-> << PrintStmt(Call(Var("sum"), << Num(3) >>)),
                    Expression(Assign("sum", Num(1))),
                    PrintStmt(Call(Var("g"), << Num(3) >>)),
                    Block(<< VarDecl("sum", Some(Lit(Nil))),
                             PrintStmt(Call(Var("g"), << Num(2) >>)) >>) >>]

\* var x = 1;
\* then any of:
\*   var x = 2;   { var x = 2; print x; }   print x;   { var y = 1; var y = 2; }
Declarations ==
    [name |-> "Declarations",
     prelude |-> << VarDecl("x", Some(Num(1))) >>,
     pool    |-> << VarDecl("x", Some(Num(2))),
                    Block(<< VarDecl("x", Some(Num(2))), PrintStmt(Var("x")) >>),
                    PrintStmt(Var("x")),
                    Block(<< VarDecl("y", Some(Num(1))),
                             VarDecl("y", Some(Num(2))) >>) >>]

\* fun f(a, b) { print a; print b; }   fun g(a) { return a; }
\* then any of:
\*   f(1);   print g(1, 2);   var b = "outer";   f(1, 2);
Arity ==
    [name |-> "Arity",
     prelude |-> << Function("f", << "a", "b" >>,
                             << PrintStmt(Var("a")), PrintStmt(Var("b")) >>),
                    Function("g", << "a" >>, << Return(Some(Var("a"))) >>) >>,
     pool    |-> << CallStmt(Var("f"), << Num(1) >>),
                    PrintStmt(Call(Var("g"), << Num(1), Num(2) >>)),
                    VarDecl("b", Some(Str("outer"))),
                    CallStmt(Var("f"), << Num(1), Num(2) >>) >>]

\* class K { child() { print "ran"; } }   var o = K();   o.child = K();
\* then any of:
\*   o.child();   o();   o.child.child();
InstanceCallee ==
    [name |-> "InstanceCallee",
     prelude |-> << Class("K", None,
                          << Function("child", <<>>, << PrintStmt(Str("ran")) >>) >>),
                    VarDecl("o", Some(Call(Var("K"), <<>>))),
                    Expression(Set(Var("o"), "child", Call(Var("K"), <<>>))) >>,
     pool    |-> << CallStmt(GetAttribute(Var("o"), "child"), <<>>),
                    CallStmt(Var("o"), <<>>),
                    CallStmt(GetAttribute(GetAttribute(Var("o"), "child"), "child"),
                             <<>>) >>]

\* class K { m() { return "method"; } }   var o = K();
\* then any of:
\*   print o.m;   o.m = "field";   print o.nothing;
Fields ==
    [name |-> "Fields",
     prelude |-> << Class("K", None,
                          << Function("m", <<>>, << Return(Some(Str("method"))) >>) >>),
                    VarDecl("o", Some(Call(Var("K"), <<>>))) >>,
     pool    |-> << PrintStmt(GetAttribute(Var("o"), "m")),
                    Expression(Set(Var("o"), "m", Str("field"))),
                    PrintStmt(GetAttribute(Var("o"), "nothing")) >>]

\* class K { set(v) { this.v = v; } }
\* var a = K();  var b = a;  var c = K();  var box = K();  box.item = a;
\* fun poke(o) { o.v = 3; }
\* then any of:
\*   b.v = 1;   poke(a);   a.set(2);   box.item.v = 4;
\*   print b.v;   print box.item.v;   print c.v;
Handle ==
    [name |-> "Handle",
     prelude |-> << Class("K", None,
                          << Function("set", << "v" >>,
                                      << Expression(Set(This, "v", Var("v"))) >>) >>),
                    VarDecl("a", Some(Call(Var("K"), <<>>))),
                    VarDecl("b", Some(Var("a"))),
                    VarDecl("c", Some(Call(Var("K"), <<>>))),
                    VarDecl("box", Some(Call(Var("K"), <<>>))),
                    Expression(Set(Var("box"), "item", Var("a"))),
                    Function("poke", << "o" >>,
                             << Expression(Set(Var("o"), "v", Num(3))) >>) >>,
     pool    |-> << Expression(Set(Var("b"), "v", Num(1))),
                    CallStmt(Var("poke"), << Var("a") >>),
                    CallStmt(GetAttribute(Var("a"), "set"), << Num(2) >>),
                    Expression(Set(GetAttribute(Var("box"), "item"), "v", Num(4))),
                    PrintStmt(GetAttribute(Var("b"), "v")),
                    PrintStmt(GetAttribute(GetAttribute(Var("box"), "item"), "v")),
                    PrintStmt(GetAttribute(Var("c"), "v")) >>]

\* class A { m() { this.seen = "A"; print "A.m"; } }
\* class B < A { m() { print "B.m"; super.m(); print this.seen; } }
\*                                   (the `super` of line 3)
\* var b = B();
\* then any of:
\*   b.m();   print b.seen;   B().m();
SuperThis ==
    [name |-> "SuperThis",
     prelude |-> << Class("A", None,
                          << Function("m", <<>>,
                                      << Expression(Set(This, "seen", Str("A"))),
                                         PrintStmt(Str("A.m")) >>) >>),
                    Class("B", Some(Var("A")),
                          << Function("m", <<>>,
                                      << PrintStmt(Str("B.m")),
                                         CallStmt(Super(3, "m"), <<>>),
                                         PrintStmt(GetAttribute(This, "seen")) >>) >>),
                    VarDecl("b", Some(Call(Var("B"), <<>>))) >>,
     pool    |-> << CallStmt(GetAttribute(Var("b"), "m"), <<>>),
                    PrintStmt(GetAttribute(Var("b"), "seen")),
                    MethodCall("B", "m") >>]

\* var x = "global";
\* fun show() { print x; }
\* fun peek() { print y; }
\* fun shadow() { var x = "local"; show(); }
\* fun hide() { var y = "caller"; peek(); }
\* then any of:
\*   shadow();   hide();   { var x = "block"; show(); }
Lexical ==
    [name |-> "Lexical",
     prelude |-> << VarDecl("x", Some(Str("global"))),
                    Function("show", <<>>, << PrintStmt(Var("x")) >>),
                    Function("peek", <<>>, << PrintStmt(Var("y")) >>),
                    Function("shadow", <<>>,
                             << VarDecl("x", Some(Str("local"))),
                                CallStmt(Var("show"), <<>>) >>),
                    Function("hide", <<>>,
                             << VarDecl("y", Some(Str("caller"))),
                                CallStmt(Var("peek"), <<>>) >>) >>,
     pool    |-> << CallStmt(Var("shadow"), <<>>),
                    CallStmt(Var("hide"), <<>>),
                    Block(<< VarDecl("x", Some(Str("block"))),
                             CallStmt(Var("show"), <<>>) >>) >>]

\* var t = false;
\* var n = false;
\* then any of:
\*   print false and (t = true);      print true or (n = 1);
\*   print (t = false) or (n = true); print nil and (t = true);
\*   print t and n;
Logic ==
    [name |-> "Logic",
     prelude |-> << VarDecl("t", Some(Lit(Boolean(FALSE)))),
                    VarDecl("n", Some(Lit(Boolean(FALSE)))) >>,
     pool    |-> << PrintStmt(Binary(Lit(Boolean(FALSE)), "And",
                                     Grouping(Assign("t", Lit(Boolean(TRUE)))))),
                    PrintStmt(Binary(Lit(Boolean(TRUE)), "Or",
                                     Grouping(Assign("n", Num(1))))),
                    PrintStmt(Binary(Grouping(Assign("t", Lit(Boolean(FALSE)))), "Or",
                                     Grouping(Assign("n", Lit(Boolean(TRUE)))))),
                    PrintStmt(Binary(Lit(Nil), "And",
                                     Grouping(Assign("t", Lit(Boolean(TRUE)))))),
                    PrintStmt(Binary(Var("t"), "And", Var("n"))) >>]

\* var n = 0;
\* then any of:
\*   return;
\*   { { return n; } print "after block"; }
\*   if (true) { return 1; } else print "else";
\*   while (true) { n = n + 1; return n; print "after return"; }
\*   print n;
TopReturn ==
    [name |-> "TopReturn",
     prelude |-> << VarDecl("n", Some(Num(0))) >>,
     pool    |-> << Return(None),
                    Block(<< Block(<< Return(Some(Var("n"))) >>),
                             PrintStmt(Str("after block")) >>),
                    If(Lit(Boolean(TRUE)), Block(<< Return(Some(Num(1))) >>),
                       Some(PrintStmt(Str("else")))),
                    While(Lit(Boolean(TRUE)),
                          Block(<< Expression(Assign("n", Binary(Var("n"), "Plus", Num(1)))),
                                   Return(Some(Var("n"))),
                                   PrintStmt(Str("after return")) >>)),
                    PrintStmt(Var("n")) >>]

\* var g = "global";
\* class K {
\*   init() { this.v = "field"; }
\*   show() { print v; }
\*   peek() { print g; }
\*   make() { return K(); }
\* }
\* var k = K();
\* then any of:
\*   k.show();   k.peek();   k.make();   print g;
MethodScope ==
    [name |-> "MethodScope",
     prelude |-> << VarDecl("g", Some(Str("global"))),
                    Class("K", None,
                          << Function("init", <<>>,
                                      << Expression(Set(This, "v", Str("field"))) >>),
                             Function("show", <<>>, << PrintStmt(Var("v")) >>),
                             Function("peek", <<>>, << PrintStmt(Var("g")) >>),
                             Function("make", <<>>,
                                      << Return(Some(Call(Var("K"), <<>>))) >>) >>),
                    VarDecl("k", Some(Call(Var("K"), <<>>))) >>,
     pool    |-> << CallStmt(GetAttribute(Var("k"), "show"), <<>>),
                    CallStmt(GetAttribute(Var("k"), "peek"), <<>>),
                    CallStmt(GetAttribute(Var("k"), "make"), <<>>),
                    PrintStmt(Var("g")) >>]

\* var s = "";
\* fun f(a, b) { print "body"; }
\* fun mk() { s = s + "c"; return f; }
\* then any of:
\*   mk()(s = s + "1", s = s + "2");
\*   mk()(s = s + "1", nope, s = s + "2");
\*   nope(s = s + "1");
\*   print s;
Extend(text) == Assign("s", Binary(Var("s"), "Plus", Str(text)))
CallOrder ==
    [name |-> "CallOrder",
     prelude |-> << VarDecl("s", Some(Str(""))),
                    Function("f", << "a", "b" >>, << PrintStmt(Str("body")) >>),
                    Function("mk", <<>>, << Expression(Extend("c")),
                                            Return(Some(Var("f"))) >>) >>,
     pool    |-> << CallStmt(Call(Var("mk"), <<>>), << Extend("1"), Extend("2") >>),
                    CallStmt(Call(Var("mk"), <<>>),
                             << Extend("1"), Var("nope"), Extend("2") >>),
                    CallStmt(Var("nope"), << Extend("1") >>),
                    PrintStmt(Var("s")) >>]

\* class K { }
\* var a = K();
\* var b = K();
\* var n = 0;
\* then any of:
\*   a.x = b.y = 5;   print a.x.y;   print (a.x = 1);   print n = 7;
\*   n = a.x = 2;     print n;
Chained ==
    [name |-> "Chained",
     prelude |-> << Class("K", None, <<>>),
                    VarDecl("a", Some(Call(Var("K"), <<>>))),
                    VarDecl("b", Some(Call(Var("K"), <<>>))),
                    VarDecl("n", Some(Num(0))) >>,
     pool    |-> << Expression(Set(Var("a"), "x", Set(Var("b"), "y", Num(5)))),
                    PrintStmt(GetAttribute(GetAttribute(Var("a"), "x"), "y")),
                    PrintStmt(Grouping(Set(Var("a"), "x", Num(1)))),
                    PrintStmt(Assign("n", Num(7))),
                    Expression(Assign("n", Set(Var("a"), "x", Num(2)))),
                    PrintStmt(Var("n")) >>]

Scenarios ==
    << Closures, Classes, Constructors, Control, Equality, Recursion, Declarations,
       Arity, InstanceCallee, Fields, Handle, SuperThis, Lexical, Logic,
       TopReturn,
       MethodScope,
       CallOrder,
       Chained >>

\* the number literal n as the parser builds it: `-2` is a unary minus
NumExpr(n) == IF n < 0 THEN Unary("Minus", Num(-n)) ELSE Num(n)

\* var a = <a>;  var b = <b>;
\* then any of:
\*   print a + b;   print a / b;   print b / a;   a = a / b;
Arithmetic(a, b) ==
    [name |-> "Arithmetic",
     prelude |-> << VarDecl("a", Some(NumExpr(a))), VarDecl("b", Some(NumExpr(b))) >>,
     pool    |-> << PrintStmt(Binary(Var("a"), "Plus", Var("b"))),
                    PrintStmt(Binary(Var("a"), "Slash", Var("b"))),
                    PrintStmt(Binary(Var("b"), "Slash", Var("a"))),
                    Expression(Assign("a", Binary(Var("a"), "Slash", Var("b")))) >>]

\* the arithmetic programs, one for every pair of operands
Operands == 2 * MaxNum + 1
ArithmeticScenarios ==
    [i \in 1..(Operands * Operands) |->
        Arithmetic(((i - 1) \div Operands) - MaxNum, ((i - 1) % Operands) - MaxNum)]

AllScenarios == Scenarios \o ArithmeticScenarios

\* ------------------------------------------------- the scanner (scanner.rs)
\* A char is a string of one character; NUL is '\0'.
NUL == "NUL"

Digits == {"0", "1", "2", "3", "4", "5", "6", "7", "8", "9"}
Letters ==
    {"a", "b", "c", "d", "e", "f", "g", "h", "i", "j", "k", "l", "m",
     "n", "o", "p", "q", "r", "s", "t", "u", "v", "w", "x", "y", "z",
     "A", "B", "C", "D", "E", "F", "G", "H", "I", "J", "K", "L", "M",
     "N", "O", "P", "Q", "R", "S", "T", "U", "V", "W", "X", "Y", "Z"}
is_ascii_digit(c) == c \in Digits
is_ascii_alphabetic(c) == c \in Letters
is_ascii_alphanumeric(c) == c \in Letters \cup Digits

\* chars.iter().collect::<String>()
RECURSIVE Text(_)
Text(chars) == IF chars = <<>> THEN "" ELSE Head(chars) \o Text(Tail(chars))

Token(token_type, line, lexeme, literal) ==
    [token_type |-> token_type, line |-> line, lexeme |-> lexeme, literal |-> literal]

\* Scanner::new
Scanner_new(source) ==
    [source |-> source, current |-> 0, start |-> 0, line |-> 1, had_error |-> FALSE]

\* self.source.get(i).copied().unwrap_or('\0'), i counted from 0
char_at(sc, i) == IF i < Len(sc.source) THEN sc.source[i + 1] ELSE NUL
peek(sc) == char_at(sc, sc.current)
peek_next(sc) == char_at(sc, sc.current + 1)
is_at_end(sc) == sc.current >= Len(sc.source)

\* advance moves the cursor whether or not a character is left
advance(sc) == [sc |-> [sc EXCEPT !.current = @ + 1], c |-> char_at(sc, sc.current)]

match_char(sc, expected) ==
    IF is_at_end(sc) \/ sc.source[sc.current + 1] # expected
    THEN [sc |-> sc, matched |-> FALSE]
    ELSE [sc |-> [sc EXCEPT !.current = @ + 1], matched |-> TRUE]

\* what scan_token gives: a token, or a panic of the thread
Scanned(sc, token) == [sc |-> sc, panicked |-> FALSE, token |-> token]
Panicked(sc) == [sc |-> sc, panicked |-> TRUE]

\* self.source[self.start..self.current] panics unless
\* start <= current <= len
slice_in_bounds(sc) == sc.start <= sc.current /\ sc.current <= Len(sc.source)
lexeme_of(sc) == Text(SubSeq(sc.source, sc.start + 1, sc.current))

make_token(sc, token_type) ==
    IF slice_in_bounds(sc)
    THEN Scanned(sc, Token(token_type, sc.line, lexeme_of(sc), None))
    ELSE Panicked(sc)

make_token_with_literal(sc, token_type, literal) ==
    IF slice_in_bounds(sc)
    THEN Scanned(sc, Token(token_type, sc.line, lexeme_of(sc), Some(literal)))
    ELSE Panicked(sc)

error_token(sc, message) ==
    Scanned([sc EXCEPT !.had_error = TRUE],
            Token("Error", sc.line, "[line " \o ToString(sc.line) \o "] " \o message, None))

make_dual_char_token(sc, expected, matched_type, unmatched_type) ==
    With(match_char(sc, expected), LAMBDA m :
    make_token(m.sc, IF m.matched THEN matched_type ELSE unmatched_type))

\* while self.peek() != '\n' && !self.is_at_end() { self.advance(); }
RECURSIVE skip_comment(_)
skip_comment(sc) ==
    IF peek(sc) # "\n" /\ ~is_at_end(sc) THEN skip_comment(advance(sc).sc) ELSE sc

RECURSIVE skip_whitespace(_)
skip_whitespace(sc) ==
    CASE peek(sc) \in {" ", "\r", "\t"} -> skip_whitespace(advance(sc).sc)
      [] peek(sc) = "\n" -> skip_whitespace(advance([sc EXCEPT !.line = @ + 1]).sc)
      [] peek(sc) = "/" /\ peek_next(sc) = "/" -> skip_whitespace(skip_comment(sc))
      [] OTHER -> sc

\* the escapes of a string literal
Escapes ==
    "n" :> "\n" @@ "t" :> "\t" @@ "r" :> "\r" @@ "\"" :> "\"" @@ "\\" :> "\\"

\* the while loop of scan_string
RECURSIVE string_loop(_, _, _)
string_loop(sc, value, error) ==
    IF peek(sc) # "\"" /\ ~is_at_end(sc)
    THEN With(advance(IF peek(sc) = "\n" THEN [sc EXCEPT !.line = @ + 1] ELSE sc),
              LAMBDA a :
         IF a.c = "\\"
         THEN With(advance(a.sc), LAMBDA esc :
              IF esc.c \in DOMAIN Escapes
              THEN string_loop(esc.sc, value \o Escapes[esc.c], error)
              ELSE string_loop(esc.sc, value,
                               Some("Invalid escape sequence \\" \o esc.c)))
         ELSE string_loop(a.sc, value \o a.c, error))
    ELSE [sc |-> sc, value |-> value, error |-> error]

scan_string(sc) ==
    With(string_loop(sc, "", None), LAMBDA l :
    IF is_at_end(l.sc) THEN error_token(l.sc, "Unterminated string")
    ELSE With(advance(l.sc).sc, LAMBDA closed :
         IF l.error # None THEN error_token(closed, l.error[1])
         ELSE make_token_with_literal(closed, "String", StringValue(l.value))))

\* while self.peek().is_ascii_digit() { self.advance(); }
RECURSIVE skip_digits(_)
skip_digits(sc) == IF is_ascii_digit(peek(sc)) THEN skip_digits(advance(sc).sc) ELSE sc

digit_value(c) ==
    CASE c = "0" -> 0 [] c = "1" -> 1 [] c = "2" -> 2 [] c = "3" -> 3 [] c = "4" -> 4
      [] c = "5" -> 5 [] c = "6" -> 6 [] c = "7" -> 7 [] c = "8" -> 8 [] c = "9" -> 9

\* the integer written by a sequence of digits (0 for the empty one)
RECURSIVE digits_value(_)
digits_value(chars) ==
    IF chars = <<>> THEN 0
    ELSE 10 * digits_value(SubSeq(chars, 1, Len(chars) - 1)) + digit_value(chars[Len(chars)])

RECURSIVE pow10(_)
pow10(k) == IF k = 0 THEN 1 ELSE 10 * pow10(k - 1)

\* num_str.parse::<f64>() on digits with at most one decimal point
parse(chars) ==
    LET dots   == { k \in DOMAIN chars : chars[k] = "." }
        digits == SelectSeq(chars, is_ascii_digit)
    IN IF Cardinality(dots) > 1 \/ digits = <<>>
          \/ Len(digits) + Cardinality(dots) # Len(chars)
       THEN [tag |-> "Err"]
       ELSE Ok(Frac(digits_value(digits),
                    pow10(IF dots = {} THEN 0
                          ELSE Len(chars) - (CHOOSE k \in dots : TRUE))))

scan_number(sc) ==
    With(skip_digits(sc), LAMBDA whole :
    With(IF peek(whole) = "." /\ is_ascii_digit(peek_next(whole))
         THEN skip_digits(advance(whole).sc) ELSE whole, LAMBDA s1 :
    IF ~slice_in_bounds(s1) THEN Panicked(s1)
    ELSE With(parse(SubSeq(s1.source, s1.start + 1, s1.current)), LAMBDA num :
         IF num.tag = "Ok" THEN make_token_with_literal(s1, "Number", num.val)
         ELSE error_token(s1, "Invalid number " \o lexeme_of(s1)))))

\* the keyword table of scan_identifier
keyword_type(text) ==
    CASE text = "and" -> "And" [] text = "class" -> "Class" [] text = "else" -> "Else"
      [] text = "false" -> "False" [] text = "for" -> "For" [] text = "fun" -> "Fun"
      [] text = "if" -> "If" [] text = "nil" -> "Nil" [] text = "or" -> "Or"
      [] text = "print" -> "Print" [] text = "return" -> "Return"
      [] text = "super" -> "Super" [] text = "this" -> "This" [] text = "true" -> "True"
      [] text = "var" -> "Var" [] text = "while" -> "While"
      [] OTHER -> "Identifier"

RECURSIVE skip_identifier(_)
skip_identifier(sc) ==
    IF is_ascii_alphanumeric(peek(sc)) \/ peek(sc) = "_"
    THEN skip_identifier(advance(sc).sc) ELSE sc

scan_identifier(sc) ==
    With(skip_identifier(sc), LAMBDA s1 :
    IF ~slice_in_bounds(s1) THEN Panicked(s1)
    ELSE make_token(s1, keyword_type(lexeme_of(s1))))

single_char_tokens ==
    "(" :> "LeftParen" @@ ")" :> "RightParen" @@ "{" :> "LeftBrace" @@ "}" :> "RightBrace"
    @@ "," :> "Comma" @@ "." :> "Dot" @@ "-" :> "Minus" @@ "+" :> "Plus"
    @@ ";" :> "Semicolon" @@ "*" :> "Star"

RECURSIVE scan_token(_), scan_char(_, _)
\* the match on the character c that scan_token has just consumed
scan_char(sc, c) ==
    CASE c \in DOMAIN single_char_tokens -> make_token(sc, single_char_tokens[c])
      [] c = "/" ->
            With(match_char(sc, "/"), LAMBDA m :
            IF m.matched THEN scan_token(skip_comment(m.sc))
            ELSE make_token(m.sc, "Slash"))
      [] c = "!" -> make_dual_char_token(sc, "=", "BangEqual", "Bang")
      [] c = "=" -> make_dual_char_token(sc, "=", "EqualEqual", "Equal")
      [] c = "<" -> make_dual_char_token(sc, "=", "LessEqual", "Less")
      [] c = ">" -> make_dual_char_token(sc, "=", "GreaterEqual", "Greater")
      [] c = "\"" -> scan_string(sc)
      [] is_ascii_digit(c) -> scan_number(sc)
      [] is_ascii_alphabetic(c) \/ c = "_" -> scan_identifier(sc)
      [] OTHER -> error_token(sc, "Unexpected character '" \o c \o "'")

scan_token(sc) ==
    With(skip_whitespace(sc), LAMBDA w :
    With([w EXCEPT !.start = w.current], LAMBDA s1 :
    IF is_at_end(s1) THEN make_token(s1, "Eof")
    ELSE With(advance(s1), LAMBDA a : scan_char(a.sc, a.c))))

\* the characters of the source texts that are scanned
Alphabet == {"1", "5", ".", "\"", "\\", "@", " ", "a"}

\* the source texts: every text of at most MaxLen characters
Sources == UNION { [1..n -> Alphabet] : n \in 0..MaxLen }

\* ------------------------------------------------- the state machine
VARIABLES
    scenario,          \* which scenario the program is drawn from
    program,           \* the statements interpret has executed so far
    status,            \* "running", or how interpret ended
    heap,              \* the Environment cells
    environment,       \* Interpreter.environment
    instance_counter,  \* Interpreter.instance_counter
    out,               \* the lines written by println!
    trace,             \* what the evaluator did (for the properties)
    scanner,           \* the Scanner
    lexing             \* scan_tokens: its tokens, its errors, how it ended

interpreter_vars ==
    <<scenario, program, status, heap, environment, instance_counter, out, trace>>
vars == <<scenario, program, status, heap, environment, instance_counter, out, trace,
          scanner, lexing>>

\* scan_tokens before its loop; built records the cursor when each token
\* was built
Lexing_new ==
    [tokens |-> <<>>, errors |-> <<>>, built |-> <<>>, state |-> "scanning",
     result |-> None]

\* the readings the system clock may give
Clock == {7, 9}

\* Interpreter::new
Init ==
    /\ scenario \in 1..Len(AllScenarios)
    /\ program = <<>>
    /\ status = "running"
    /\ heap = << Environment("clock" :> NativeFunctionValue("clock"), 0) >>
    /\ environment = 1
    /\ instance_counter = 0
    /\ out = <<>>
    /\ trace = <<>>
    /\ scanner = Scanner_new(<<>>)
    /\ lexing = Lexing_new

Prelude == AllScenarios[scenario].prelude
Pool    == AllScenarios[scenario].pool
InScenario(name) == AllScenarios[scenario].name = name

\* the statements the program may continue with: the next statement of
\* the prelude (numbered -1, -2, ...), then any statement of the pool
NextStmts ==
    IF Len(program) < Len(Prelude) THEN { -(Len(program) + 1) }
    ELSE IF Len(program) < Len(Prelude) + MaxStmts THEN DOMAIN Pool
    ELSE {}

StmtAt(i) == IF i < 0 THEN Prelude[-i] ELSE Pool[i]

\* an interpret that takes a Return reaching it for the end of the statement
StatusOf_return_ends_statement(r) ==
    CASE r.tag = "Ok" -> "running"
      [] r.tag = "Runtime" -> "error"
      [] r.tag = "Return" -> "running"
      [] r.tag = "Abort" -> "abort"

\* how interpret ends when execute returns r
StatusOf(r) ==
    CASE r.tag = "Ok" -> "running"
      [] r.tag = "Runtime" -> "error"
      [] r.tag = "Return" -> "error"
      [] r.tag = "Abort" -> "abort"

\* one iteration of the loop of interpret: self.execute(stmt)?
Interpret ==
    /\ status = "running"
    /\ \E i \in NextStmts, now \in Clock :
         LET e == execute(StmtAt(i), [heap |-> heap, environment |-> environment,
                                      instance_counter |-> instance_counter,
                                      out |-> out, trace |-> trace, depth |-> 0,
                                      frame |-> 0, now |-> now])
         IN /\ program' = Append(program, i)
            /\ status' = StatusOf(e.r)
            /\ heap' = e.st.heap
            /\ environment' = e.st.environment
            /\ instance_counter' = e.st.instance_counter
            /\ out' = e.st.out
            /\ trace' = e.st.trace
    /\ UNCHANGED <<scenario, scanner, lexing>>

\* the loop of interpret is over: Ok(())
Finish ==
    /\ status = "running"
    /\ Len(program) >= Len(Prelude)
    /\ status' = "ok"
    /\ UNCHANGED <<scenario, program, heap, environment, instance_counter, out, trace,
                   scanner, lexing>>

Next == Interpret \/ Finish

Spec == Init /\ [][Next]_vars

\* ------------------------------------------------- the scanner at work
\* a Scanner on any source text; no program is interpreted
ScanInit ==
    /\ scenario = 1
    /\ program = <<>>
    /\ status = "running"
    /\ heap = << Environment("clock" :> NativeFunctionValue("clock"), 0) >>
    /\ environment = 1
    /\ instance_counter = 0
    /\ out = <<>>
    /\ trace = <<>>
    /\ scanner \in { Scanner_new(source) : source \in Sources }
    /\ lexing = Lexing_new

\* scan_tokens after scan_token gave r
push_token(l, r) ==
    IF r.panicked THEN [l EXCEPT !.state = "panicked"]
    ELSE [l EXCEPT !.tokens = Append(@, r.token),
                   !.errors = IF r.token.token_type = "Error"
                              THEN Append(@, r.token.lexeme) ELSE @,
                   !.built = Append(@, [start |-> r.sc.start, current |-> r.sc.current]),
                   !.state = IF r.token.token_type = "Eof" THEN "at_eof" ELSE "scanning"]

\* one iteration of the loop of scan_tokens
ScanToken ==
    /\ lexing.state = "scanning"
    /\ LET r == scan_token(scanner)
       IN /\ scanner' = IF ~r.panicked /\ r.token.token_type = "Error"
                        THEN [r.sc EXCEPT !.had_error = TRUE] ELSE r.sc
          /\ lexing' = push_token(lexing, r)
    /\ UNCHANGED interpreter_vars

\* if errors.is_empty() { Ok(tokens) } else { Err(errors) }
ScanReturn ==
    /\ lexing.state = "at_eof"
    /\ lexing' = [lexing EXCEPT !.state = "returned",
                                !.result = Some(IF lexing.errors = <<>>
                                                THEN [tag |-> "Ok", tokens |-> lexing.tokens]
                                                ELSE [tag |-> "Err", errors |-> lexing.errors])]
    /\ UNCHANGED <<interpreter_vars, scanner>>

ScanNext == ScanToken \/ ScanReturn

ScanSpec == ScanInit /\ [][ScanNext]_vars

\* ------------------------------------------------- properties
Events(kind) == { j \in DOMAIN trace : trace[j].ev = kind }

\* the calls of a function value made from the declaration `fun inc`
IncBody  == MakeCounter.body[2].body
IncCalls == { j \in Events("call_function") : trace[j].func.body = IncBody }
SameCounter(j, k) == trace[j].func.closure = trace[k].func.closure

\* C1: closures capture by reference.  The n-th call of one function value
\* made by makeCounter returns n; all calls of that function value resolve
\* the captured `i` to one and the same scope, calls of a function value
\* from another call of makeCounter resolve it to another scope, and the `i`
\* of each counter held in a global variable counts the calls of that
\* counter only.
C1_ClosuresCaptureByReference ==
    /\ \A j \in IncCalls :
          /\ trace[j].res = Ok(NumberValue(
                 Cardinality({ k \in IncCalls : k < j /\ SameCounter(j, k) }) + 1))
          /\ \A k \in IncCalls :
                SameCounter(j, k) <=>
                    Binder(heap, trace[j].frame, "i") = Binder(heap, trace[k].frame, "i")
    /\ \A v \in {"c", "d"} :
          (InScenario("Closures") /\ v \in DOMAIN heap[1].values) =>
              LET f == heap[1].values[v]
              IN heap[Binder(heap, f.closure, "i")].values["i"] =
                    NumberValue(Cardinality({ k \in IncCalls :
                                                trace[k].func.closure = f.closure }))

\* c was called twice and returned 2, and a second counter d exists
C1_Witness ==
    /\ \E j, k \in IncCalls : j < k /\ SameCounter(j, k) /\ trace[k].res = Ok(NumberValue(2))
    /\ "d" \in DOMAIN heap[1].values

Range(s) == { s[k] : k \in DOMAIN s }

\* the names bound somewhere in the heap, and two that no program binds
\* outside a method
Names == UNION { DOMAIN heap[e].values : e \in DOMAIN heap } \cup {"nope", "this"}

\* the calls made by call_function for a function whose closure is cell b
CallsOfClosure(b) == { c \in Events("call_function") : trace[c].func.closure = b }

\* the calls of call_function made by call_class_constructor to run an init
ConstructorCalls ==
    UNION { CallsOfClosure(trace[j].bound) : j \in Events("call_class_constructor") }

\* C2: every runtime error other than the Return signal, raised at any call
\* depth and in any kind of function body (init run by a constructor call
\* included), reaches the caller of interpret as an Err: once an error has
\* been raised, interpret has ended with an error.
C2_RuntimeErrorsReachInterpret ==
    Events("raise") # {} => status = "error"

\* method resolution by the class chain alone: the class's own method, else
\* the superclass's resolution, else not found
RECURSIVE chain_method(_, _, _)
chain_method(h, cls, n) ==
    IF n \in DOMAIN h[cls.environment].values
       /\ h[cls.environment].values[n].t = "FunctionValue"
    THEN Some(h[cls.environment].values[n])
    ELSE IF cls.superclass = None THEN None
    ELSE chain_method(h, cls.superclass[1], n)

MethodNames == {"m", "n", "init"}

\* C3: method resolution for a class and a name depends only on the class
\* chain; a name bound only in a lexical scope enclosing the class
\* declaration is never returned as a method and never hides an inherited
\* method.  Stated for every class held in a global variable.
C3_MethodResolutionByClassChain ==
    \A c \in DOMAIN heap[1].values :
        heap[1].values[c].t = "ClassValue" =>
            \A n \in MethodNames :
                find_method(heap, heap[1].values[c], n)
                    = chain_method(heap, heap[1].values[c], n)

\* C4: `super.m` inside B.m (the `super` of line 2) resolves `super` to A,
\* the superclass of the defining class B, whatever the class of the
\* instance; so every run of B.m is followed by a run of A.m and B.m is not
\* re-entered.
C4_SuperIsSuperclassOfDefiningClass ==
    /\ \A j \in Events("super") : trace[j].line = 2 => trace[j].super_class = "A"
    /\ InScenario("Classes") =>
          \A i \in DOMAIN out :
              out[i] = "B.m" => (i < Len(out) /\ out[i + 1] = "A.m")

\* C5: a Return executed in a function body ends that call at once: after it
\* no statement runs in that activation, the call evaluates to the returned
\* value (nil for `return;`), a body that ends without a return gives nil,
\* and the Return signal is never the result of a call.  Stated for the
\* calls made by call expressions (an init run by a constructor call is not
\* one).
C5_ReturnEndsTheCall ==
    /\ \A j \in Events("return") :
          trace[j].frame # 0 =>
              /\ \A k \in Events("exec") : k > j => trace[k].frame # trace[j].frame
              /\ \E c \in Events("call_function") :
                    /\ c > j
                    /\ trace[c].frame = trace[j].frame
                    /\ trace[c].body_r = ErrReturn(trace[j].val)
                    /\ c \notin ConstructorCalls => trace[c].res = Ok(trace[j].val)
    /\ \A c \in Events("call_function") :
          /\ trace[c].res.tag # "Return"
          /\ (trace[c].body_r.tag = "Ok" /\ c \notin ConstructorCalls) =>
                trace[c].res = Ok(Nil)

ScopeEvents ==
    Events("block") \cup Events("execute_block") \cup Events("call_function")
        \cup Events("call_class_constructor")

\* C6: after a Block statement, a function body, a function call and a
\* constructor call, the current environment is the environment that was
\* current before, whether the block ended normally, with a runtime error or
\* with a Return; the scope made for the block or the call is not in the
\* chain of the current environment afterwards, and after every statement of
\* the program the current environment is the global one.
C6_EnvironmentRestored ==
    /\ status # "abort" => environment = 1
    /\ \A j \in ScopeEvents : trace[j].after = trace[j].before
    /\ \A j \in Events("block") \cup Events("execute_block") :
          trace[j].inner \notin Range(Chain(heap, trace[j].after))
    /\ \A j \in Events("call_function") :
          trace[j].frame \notin Range(Chain(heap, trace[j].after))

\* blocks have ended normally, with a runtime error and with a Return, and
\* a function call and a constructor call have ended
C6_Witness ==
    /\ \A t \in {"Ok", "Runtime", "Return"} :
          \E j \in Events("block") : trace[j].tag = t
    /\ Events("call_function") # {}
    /\ Events("call_class_constructor") # {}

\* the error of get for a name no scope binds
Undefined(name) ==
    IF name = "this" THEN ErrRuntime("this isn't bound in environment.")
    ELSE ErrRuntime("Undefined variable '" \o name \o "'.")

\* C7: from every scope and for every name, get returns the value bound in
\* the innermost scope of the chain that binds the name, and fails with the
\* undefined-variable error exactly when no scope of the chain binds it.
C7_GetFindsInnermostBinding ==
    \A env \in DOMAIN heap :
        \A name \in Names :
            get(heap, env, name) =
                IF Binder(heap, env, name) = 0 THEN Undefined(name)
                ELSE Ok(heap[Binder(heap, env, name)].values[name])

\* a scope whose chain binds x twice, with different values, and the program
\* has printed the inner one
C7_Witness ==
    /\ InScenario("Control")
    /\ "3" \in Range(out)
    /\ \E env \in DOMAIN heap :
          /\ Binder(heap, env, "x") \notin {0, 1}
          /\ get(heap, env, "x") = Ok(NumberValue(3))
          /\ get(heap, 1, "x") = Ok(NumberValue(1))
          /\ get(heap, env, "nope").tag = "Runtime"

\* the value assigned where the effect of assign is examined
Marker == StringValue("assigned")

\* C8: from every scope and for every name, assign overwrites the binding of
\* the innermost scope of the chain that binds the name and changes nothing
\* else; when no scope binds the name it fails with the undefined-variable
\* error and changes nothing.  In the Control program the assignment x = 3
\* made inside the block leaves the global x at 1.
C8_AssignOverwritesInnermostBinding ==
    /\ \A env \in DOMAIN heap :
          \A name \in Names :
              assign(heap, env, name, Marker) =
                  IF Binder(heap, env, name) = 0
                  THEN [heap |-> heap,
                        r |-> ErrRuntime("Undefined variable '" \o name \o "'.")]
                  ELSE [heap |-> [heap EXCEPT
                                     ![Binder(heap, env, name)].values[name] = Marker],
                        r |-> OkUnit]
    /\ (InScenario("Control") /\ "x" \in DOMAIN heap[1].values) =>
          heap[1].values["x"] = NumberValue(1)

\* the block of the Control program has assigned 3 to its own x, which it
\* has printed through y, and the global x is still bound
C8_Witness ==
    /\ InScenario("Control")
    /\ "3" \in Range(out)
    /\ \E env \in DOMAIN heap :
          /\ Binder(heap, env, "x") \notin {0, 1}
          /\ heap[Binder(heap, env, "x")].values["x"] = NumberValue(3)
          /\ heap[1].values["x"] = NumberValue(1)

\* C9: a constructor call evaluates to the new instance when there is no
\* init and when init ends by falling off its end, by `return;` or by
\* `return v;`; an init found by method resolution is run exactly once, with
\* the arguments of the call and with `this` bound to the new instance, so
\* the field x that the init of P sets from its argument is on the instance
\* when the constructor returns.
C9_ConstructorYieldsInstance ==
    \A j \in Events("call_class_constructor") :
        /\ trace[j].init = None =>
              /\ CallsOfClosure(trace[j].bound) = {}
              /\ trace[j].res = Ok(trace[j].instance)
        /\ trace[j].init # None =>
              /\ Cardinality(CallsOfClosure(trace[j].bound)) = 1
              /\ \A c \in CallsOfClosure(trace[j].bound) :
                    /\ c < j
                    /\ trace[c].args = trace[j].args
                    /\ trace[c].func.body = trace[j].init[1].body
                    /\ trace[c].body_r.tag \in {"Ok", "Return"} =>
                          trace[j].res = Ok(trace[j].instance)
              /\ heap[trace[j].bound].values["this"] = trace[j].instance
              /\ trace[j].instance.class.name = "P" =>
                    /\ "x" \in DOMAIN trace[j].fields
                    /\ trace[j].fields["x"] = trace[j].args[1]

\* constructor calls have been made for a class without init and for inits
\* that fell off their end, executed `return;` and executed `return 7;`
C9_Witness ==
    /\ \E j \in Events("call_class_constructor") : trace[j].init = None
    /\ \A r \in {OkUnit, ErrReturn(Nil), ErrReturn(NumberValue(7))} :
          \E j \in Events("call_class_constructor") :
              /\ trace[j].init # None
              /\ \E c \in CallsOfClosure(trace[j].bound) : trace[c].body_r = r

\* the values that are handles to an object
Handles == {"FunctionValue", "ClassValue", "InstanceValue"}

\* C10: equality on Function, Class and Instance values is identity: when
\* both operands of == are handles to the same object the result is true,
\* and the result of != is false.
C10_HandleEqualityIsIdentity ==
    \A j \in Events("binary") :
        (trace[j].left.t \in Handles /\ trace[j].left = trace[j].right) =>
            /\ trace[j].operator = "EqualEqual" => trace[j].res = Ok(Boolean(TRUE))
            /\ trace[j].operator = "BangEqual" => trace[j].res = Ok(Boolean(FALSE))

\* C11: two instances made by two constructor calls of one class are never
\* == to each other, even when their field stores hold the same names and
\* values: every == between two instances with different field stores is
\* false, and every != between them is true.
C11_DistinctInstancesAreNotEqual ==
    \A j \in Events("binary") :
        ( /\ trace[j].left.t = "InstanceValue"
          /\ trace[j].right.t = "InstanceValue"
          /\ trace[j].left.environment # trace[j].right.environment ) =>
            /\ trace[j].operator = "EqualEqual" => trace[j].res = Ok(Boolean(FALSE))
            /\ trace[j].operator = "BangEqual" => trace[j].res = Ok(Boolean(TRUE))

\* a == K() has been evaluated: two instances of K made by two constructor
\* calls, whose field stores both hold v = 1
C11_Witness ==
    \E j \in Events("binary") :
        /\ trace[j].operator = "EqualEqual"
        /\ trace[j].left.t = "InstanceValue"
        /\ trace[j].right.t = "InstanceValue"
        /\ trace[j].left.class = trace[j].right.class
        /\ trace[j].left.environment # trace[j].right.environment
        /\ heap[trace[j].left.environment].values
              = heap[trace[j].right.environment].values
        /\ "v" \in DOMAIN heap[trace[j].left.environment].values

\* the calls of a function value made from the declaration `fun sum`
SumCalls == { c \in Events("call_function") : trace[c].func.body = SumF.body }

\* 0 + 1 + ... + n
RECURSIVE SumTo(_)
SumTo(n) == IF n <= 0 THEN 0 ELSE n + SumTo(n - 1)

\* C12: inside the body of sum the name sum resolves, in the function's own
\* closure scope, to the function itself (never to the nil placeholder), so
\* every call of it with argument n ends and yields 0 + 1 + ... + n, also
\* when the sum of the declaring scope has been reassigned or shadowed and
\* the function is called through g.
C12_SelfRecursionThroughClosure ==
    \A c \in SumCalls :
        /\ Binder(heap, trace[c].func.closure, "sum") = trace[c].func.closure
        /\ get(heap, trace[c].func.closure, "sum") = Ok(trace[c].func)
        /\ trace[c].res = Ok(NumberValue(SumTo(trace[c].args[1].n)))
        /\ InScenario("Recursion") => status # "abort"

\* sum was reassigned in the declaring scope, and g(3) has yielded 6 and
\* g(2), called where sum is shadowed by nil, has yielded 3
C12_Witness ==
    /\ InScenario("Recursion")
    /\ "sum" \in DOMAIN heap[1].values
    /\ heap[1].values["sum"] = NumberValue(1)
    /\ \E c \in SumCalls :
          trace[c].args = << NumberValue(3) >> /\ trace[c].res = Ok(NumberValue(6))
    /\ \E c \in SumCalls :
          /\ trace[c].args = << NumberValue(2) >>
          /\ trace[c].caller = 0
          /\ trace[c].res = Ok(NumberValue(3))
          /\ \E j \in Events("block") : j > c

\* C13: a var declaration of a name already bound in the innermost scope
\* fails and leaves that binding as it was; a declaration of a name bound
\* only in outer scopes succeeds, leaves what the outer scopes hold for the
\* name unchanged, and every later lookup of the name from that scope
\* resolves to the new binding; in the Declarations program the global x
\* is 1 whatever blocks have run.
C13_RedeclarationFailsShadowingSucceeds ==
    /\ \A v \in Events("vardecl") :
          /\ trace[v].was # None =>
                trace[v].tag = "Runtime" /\ trace[v].now = trace[v].was
          /\ (trace[v].was = None /\ trace[v].tag = "Ok") =>
                /\ trace[v].now # None
                /\ trace[v].outer_now = trace[v].outer_was
                /\ \A l \in Events("lookup") :
                      ( /\ l > v
                        /\ trace[l].scope = trace[v].scope
                        /\ trace[l].name = trace[v].name ) =>
                          trace[l].binder = trace[v].scope
    /\ (InScenario("Declarations") /\ "x" \in DOMAIN heap[1].values) =>
          heap[1].values["x"] = NumberValue(1)

\* var x = 2 has failed in the global scope, a block has declared its own
\* x = 2 over the global x = 1 and printed it, and after the block the
\* global x was printed as 1
C13_Witness ==
    /\ \E v \in Events("vardecl") :
          /\ trace[v].scope = 1
          /\ trace[v].was = Some(NumberValue(1))
          /\ trace[v].tag = "Runtime"
    /\ \E v \in Events("vardecl") :
          /\ trace[v].scope # 1
          /\ trace[v].outer_was = Ok(NumberValue(1))
          /\ trace[v].now = Some(NumberValue(2))
          /\ \E l \in Events("lookup") :
                l > v /\ trace[l].scope = trace[v].scope /\ trace[l].res = Ok(NumberValue(2))
          /\ \E l \in Events("lookup") :
                l > v /\ trace[l].scope = 1 /\ trace[l].res = Ok(NumberValue(1))

\* the number of parameters of the call c that got an argument
Bound(c) ==
    IF Len(trace[c].args) < Len(trace[c].func.params) THEN Len(trace[c].args)
    ELSE Len(trace[c].func.params)

\* the parameters of the call c that got no argument
Unbound(c) ==
    { trace[c].func.params[i] : i \in Bound(c) + 1 .. Len(trace[c].func.params) }

\* the lookups made in the activation of the call c of a parameter that got
\* no argument
UnboundLookups(c) ==
    { l \in Events("lookup") :
        trace[l].frame = trace[c].frame /\ trace[l].name \in Unbound(c) }

\* a call whose number of arguments is not its number of parameters does
\* not fail by itself: its scope binds exactly the parameters that got an
\* argument, positionally, and its body is run
ArgumentsBoundPositionally(c) ==
    /\ DOMAIN heap[trace[c].frame].values
          = { trace[c].func.params[i] : i \in 1 .. Bound(c) }
    /\ InScenario("Arity") =>
          \A i \in 1 .. Bound(c) :
              heap[trace[c].frame].values[trace[c].func.params[i]] = trace[c].args[i]
    /\ trace[c].func.body # <<>> =>
          \E e \in Events("exec") : trace[e].frame = trace[c].frame
    /\ (InScenario("Arity") /\ Len(trace[c].args) > Len(trace[c].func.params)) =>
          trace[c].res = Ok(trace[c].args[1])

\* C14 as stated: a call with fewer or more arguments than parameters does
\* not fail by itself, binds the arguments positionally and discards the
\* extra ones, and every later reference in the body to a parameter that
\* got no argument raises the undefined-variable error.
C14_UnboundParameterRaises ==
    \A c \in Events("call_function") :
        /\ ArgumentsBoundPositionally(c)
        /\ \A l \in UnboundLookups(c) : trace[l].res = Undefined(trace[l].name)

\* C14, amended: a reference in the body to a parameter that got no
\* argument is resolved like any free name: it raises the undefined-variable
\* error exactly when no scope enclosing the call scope binds the name, and
\* otherwise yields a binding found outside the call scope.
C14_UnboundParameterIsFreeName ==
    \A c \in Events("call_function") :
        /\ ArgumentsBoundPositionally(c)
        /\ \A l \in UnboundLookups(c) :
              /\ trace[l].binder # trace[c].frame
              /\ trace[l].binder = 0 <=> trace[l].res = Undefined(trace[l].name)
              /\ trace[l].binder # 0 => trace[l].res.tag = "Ok"

\* f(1) has been called where a global b exists and its reference to the
\* parameter b, which got no argument, has yielded that global; g(1, 2) has
\* yielded 1
C14_Witness ==
    /\ \E c \in Events("call_function") :
          /\ Len(trace[c].args) < Len(trace[c].func.params)
          /\ \E l \in UnboundLookups(c) :
                trace[l].binder = 1 /\ trace[l].res = Ok(StringValue("outer"))
    /\ \E c \in Events("call_function") :
          /\ Len(trace[c].args) > Len(trace[c].func.params)
          /\ trace[c].res = Ok(NumberValue(1))

\* C15: a Call whose callee evaluates to an Instance is always a runtime
\* error, whatever the form of the callee expression: no method is looked
\* up and run for it, and interpret ends with the error.
C15_InstanceIsNotCallable ==
    /\ \A j \in Events("call_instance") :
          trace[j].method = None /\ CallsOfClosure(trace[j].bound) = {}
    /\ Events("call_instance") # {} => status = "error"

\* C16: a property access on an instance consults the field store first:
\* a field of that name is returned even when method resolution finds a
\* method of that name; without such a field the method found is returned,
\* bound to the instance (its closure binds `this` to the instance over the
\* field store); with neither, the access is a runtime error.
C16_FieldsBeforeMethods ==
    \A g \in Events("getattr") :
        /\ trace[g].field # None => trace[g].res = Ok(trace[g].field[1])
        /\ (trace[g].field = None /\ trace[g].method # None) =>
              /\ trace[g].res.tag = "Ok"
              /\ trace[g].res.val.t = "FunctionValue"
              /\ trace[g].res.val.body = trace[g].method[1].body
              /\ heap[trace[g].res.val.closure].values["this"] = trace[g].instance
              /\ heap[trace[g].res.val.closure].enclosing
                    = trace[g].instance.environment
        /\ (trace[g].field = None /\ trace[g].method = None) =>
              trace[g].res.tag = "Runtime"

\* o.m has yielded the method of K bound to o, and after o.m = "field" it
\* has yielded the field although K still declares m
C16_Witness ==
    \E g, h \in Events("getattr") :
        /\ g < h
        /\ trace[g].instance = trace[h].instance
        /\ trace[g].name = "m" /\ trace[h].name = "m"
        /\ trace[g].field = None /\ trace[g].res.val.t = "FunctionValue"
        /\ trace[h].method # None
        /\ trace[h].res = Ok(StringValue("field"))

Max(S) == CHOOSE x \in S : \A y \in S : y <= x

\* the writes of the field `name` of the instance whose field store is
\* `store`, made before the event g through any handle
WritesBefore(g, store, name) ==
    { s \in Events("set") :
        s < g /\ trace[s].instance.environment = store /\ trace[s].name = name }

\* C17: instances are handles: a read of obj.name finds the value of the
\* latest write of that field of that instance, through whatever handle the
\* write and the read were made, and finds no field when that instance was
\* never written (writes to other instances of the class do not count); at
\* the end the field store holds the latest write of every field.
C17_InstancesAreHandles ==
    /\ \A g \in Events("getattr") :
          trace[g].name # "super" =>
              trace[g].field =
                  IF WritesBefore(g, trace[g].instance.environment, trace[g].name) = {}
                  THEN None
                  ELSE Some(trace[Max(WritesBefore(g, trace[g].instance.environment,
                                                   trace[g].name))].val)
    /\ \A s \in Events("set") :
          WritesBefore(Len(trace) + 1, trace[s].instance.environment, trace[s].name)
              \subseteq 1 .. s =>
                  /\ trace[s].name \in DOMAIN heap[trace[s].instance.environment].values
                  /\ heap[trace[s].instance.environment].values[trace[s].name]
                        = trace[s].val

\* the field v of one instance was written inside a call (through an
\* argument or `this`), overwritten by a statement of the program through
\* another handle, and read back with the later value; the other instance c
\* of the class has no field v
C17_Witness ==
    /\ InScenario("Handle")
    /\ \E s, t, g \in DOMAIN trace :
          /\ s < t /\ t < g
          /\ trace[s].ev = "set" /\ trace[t].ev = "set" /\ trace[g].ev = "getattr"
          /\ trace[s].name = "v" /\ trace[t].name = "v" /\ trace[g].name = "v"
          /\ trace[s].frame # 0 /\ trace[t].frame = 0
          /\ trace[s].instance = trace[g].instance
          /\ trace[t].instance = trace[g].instance
          /\ trace[g].res = Ok(trace[t].val)
          /\ trace[t].val # trace[s].val
    /\ "c" \in DOMAIN heap[1].values
    /\ "v" \notin DOMAIN heap[heap[1].values["c"].environment].values

\* the evaluations of `super.m` inside the override B.m on an instance of B
SuperOnB ==
    { j \in Events("super") :
        trace[j].this_class = "B" /\ trace[j].line \in {2, 3} }

\* C18: super.m() inside the override B.m, on an instance b of B, runs the
\* implementation of A with `this` bound to the same instance b: the method
\* found is A's, its closure binds `this` to b over b's field store, it is
\* called once, and the field it writes through `this` is on b afterwards.
C18_SuperKeepsThis ==
    \A j \in SuperOnB :
        /\ trace[j].super_class = "A"
        /\ DOMAIN heap[trace[j].bound].values = {"this"}
        /\ heap[trace[j].bound].values["this"] = trace[j].this
        /\ heap[trace[j].bound].enclosing = trace[j].this.environment
        /\ \A c \in CallsOfClosure(trace[j].bound) :
              /\ c > j
              /\ trace[c].func.body
                    = chain_method(heap, heap[1].values["A"], trace[j].method)[1].body
              /\ InScenario("SuperThis") =>
                    /\ "seen" \in DOMAIN heap[trace[j].this.environment].values
                    /\ \E s \in Events("set") :
                          /\ trace[s].frame = trace[c].frame
                          /\ trace[s].instance = trace[j].this
        /\ status # "abort" => Cardinality(CallsOfClosure(trace[j].bound)) = 1

\* b.m() has run: B.m called super.m, A.m ran with this = b and set
\* b.seen, which B.m printed afterwards
C18_Witness ==
    /\ InScenario("SuperThis")
    /\ out = << "B.m", "A.m", "A" >>
    /\ \E j \in SuperOnB :
          /\ trace[j].this = heap[1].values["b"]
          /\ CallsOfClosure(trace[j].bound) # {}
          /\ heap[trace[j].this.environment].values["seen"] = StringValue("A")

\* the lookups made by the body of call c of a name that no scope of the
\* call (its parameter scope, the scope of its body, the blocks inside)
\* binds: a free variable of the body
FreeLookups(c) ==
    { l \in Events("lookup") :
        /\ trace[l].frame = trace[c].frame
        /\ \/ trace[l].binder = 0
           \/ trace[c].frame \notin Range(Chain(heap, trace[l].binder)) }

\* C19: scoping is lexical. The scope of a call encloses the closure of the
\* function, so a free variable of the body is resolved to the innermost
\* binding seen from the closure, whatever the scope of the call site binds:
\* a name bound only on the caller's side is undefined in the callee, and a
\* same-named variable of the caller does not shadow the one of the closure.
C19_ScopingIsLexical ==
    \A c \in Events("call_function") :
        /\ heap[trace[c].frame].enclosing = trace[c].func.closure
        /\ \A l \in FreeLookups(c) :
              /\ trace[l].binder = Binder(heap, trace[c].func.closure, trace[l].name)
              /\ trace[l].binder = 0 => trace[l].res = Undefined(trace[l].name)
              /\ trace[l].binder # 0 => trace[l].res.tag = "Ok"

\* the free lookups of call c that the scope of the call site would have
\* resolved to another binding
SeenOtherwiseByCaller(c) ==
    { l \in FreeLookups(c) :
        Binder(heap, trace[c].before, trace[l].name) \notin {0, trace[l].binder} }

\* show() called from shadow(), whose scope binds x = "local", printed the
\* global x; then peek() called from hide(), whose scope binds y, found y
\* undefined
C19_Witness ==
    /\ InScenario("Lexical")
    /\ out = << "global" >>
    /\ \E c \in Events("call_function"), l \in Events("lookup") :
          /\ l \in SeenOtherwiseByCaller(c)
          /\ trace[l].name = "x"
          /\ trace[l].res = Ok(StringValue("global"))
          /\ heap[trace[c].before].values["x"] = StringValue("local")
    /\ \E c \in Events("call_function"), l \in Events("lookup") :
          /\ l \in SeenOtherwiseByCaller(c)
          /\ trace[l].name = "y"
          /\ trace[l].binder = 0
          /\ trace[l].res = Undefined("y")

\* the evaluations of `and` and `or`
Logical == { e \in Events("binary") : trace[e].operator \in {"And", "Or"} }

\* the error raised for an operand of `and` or `or` that is not a Boolean
NotBoolean(val) ==
    ErrRuntime("Operand must be boolean (got "
               \o (CASE val.t = "Nil" -> "nil" [] val.t = "NumberValue" -> "number"
                      [] val.t = "StringValue" -> "string" [] OTHER -> "other")
               \o ").")

\* the expression inside the parentheses of an operand
Inside(expr) == IF expr.k = "Grouping" THEN expr.expression ELSE expr

\* event j is the assignment made by operand expr, of the value v the
\* operand evaluated to
IsAssignmentOf(j, expr, v) ==
    /\ j \in DOMAIN trace
    /\ trace[j].ev = "assign"
    /\ trace[j].name = Inside(expr).name
    /\ trace[j].val = v

\* C20: `and` and `or` evaluate both operands, left then right, before the
\* result is computed: an assignment in the right operand has been made when
\* the result is computed even if the left operand decides it, after the
\* assignment of the left operand; the result is the Boolean conjunction or
\* disjunction when both operands are Booleans, and a type error otherwise.
C20_LogicalOperatorsEvaluateBoth ==
    \A e \in Logical :
        /\ trace[e].res =
              IF trace[e].left.t # "Boolean" THEN NotBoolean(trace[e].left)
              ELSE IF trace[e].right.t # "Boolean" THEN NotBoolean(trace[e].right)
              ELSE Ok(Boolean(IF trace[e].operator = "And"
                              THEN trace[e].left.b /\ trace[e].right.b
                              ELSE trace[e].left.b \/ trace[e].right.b))
        /\ Inside(trace[e].right_expr).k = "Assign" =>
              /\ IsAssignmentOf(e - 1, trace[e].right_expr, trace[e].right)
              /\ Inside(trace[e].left_expr).k = "Assign" =>
                    IsAssignmentOf(e - 2, trace[e].left_expr, trace[e].left)

\* `false and (t = true)` printed false and left t true; then
\* `true or (n = 1)` assigned 1 to n and raised the type error
C20_Witness ==
    /\ InScenario("Logic")
    /\ out = << "false" >>
    /\ status = "error"
    /\ heap[1].values["t"] = Boolean(TRUE)
    /\ heap[1].values["n"] = NumberValue(1)
    /\ \E e \in Logical :
          /\ trace[e].operator = "Or"
          /\ trace[e].left = Boolean(TRUE)
          /\ trace[e].res = NotBoolean(NumberValue(1))

\* the Return statements executed outside any call
TopLevelReturns == { r \in Events("return") : trace[r].frame = 0 }

\* C21: a Return executed at the top level of the program, possibly nested
\* in blocks, ifs or loops, makes interpret return an error: the program is
\* stopped in error, and nothing is executed or printed after the Return
\* (the only events after it are the exits of the blocks around it).
C21_TopLevelReturnIsFatal ==
    \A r \in TopLevelReturns :
        /\ status = "error"
        /\ \A j \in (r + 1)..Len(trace) :
              /\ trace[j].ev \in {"block", "execute_block"}
              /\ trace[j].tag = "Return"

\* the Return inside the body of the top-level while loop was executed in
\* the first iteration, after the assignment before it: n is 1, nothing
\* was printed by the statement and the program stopped in error
C21_Witness ==
    /\ InScenario("TopReturn")
    /\ program = << -1, 5, 4 >>
    /\ status = "error"
    /\ out = << "0" >>
    /\ heap[1].values["n"] = NumberValue(1)
    /\ \E r \in TopLevelReturns : trace[r].val = NumberValue(1)

\* the evaluations of `left op right` on two numbers
NumberOps(op) ==
    { e \in Events("binary") :
        /\ trace[e].operator = op
        /\ trace[e].left.t = "NumberValue"
        /\ trace[e].right.t = "NumberValue" }

\* v is the number p/q (q # 0), in lowest terms
IsQuotient(v, p, q) ==
    /\ v.t = "NumberValue"
    /\ v.d > 0
    /\ v.n * q = p * v.d
    /\ \A k \in 2..v.d : ~(v.n % k = 0 /\ v.d % k = 0)

\* C22: on two numbers, `a + b` evaluates to their sum; `a / b` raises the
\* division-by-zero runtime error when b is zero and evaluates to the
\* quotient, without error, when b is not zero.
C22_SumAndDivisionByZero ==
    /\ \A e \in NumberOps("Plus") :
          /\ trace[e].res.tag = "Ok"
          /\ IsQuotient(trace[e].res.val,
                        trace[e].left.n * trace[e].right.d
                          + trace[e].right.n * trace[e].left.d,
                        trace[e].left.d * trace[e].right.d)
          /\ trace[e].left.d = 1 /\ trace[e].right.d = 1 =>
                trace[e].res.val = NumberValue(trace[e].left.n + trace[e].right.n)
    /\ \A e \in NumberOps("Slash") :
          IF trace[e].right.n = 0
          THEN trace[e].res = ErrRuntime("Division by zero.")
          ELSE /\ trace[e].res.tag = "Ok"
               /\ IsQuotient(trace[e].res.val,
                             trace[e].left.n * trace[e].right.d,
                             trace[e].left.d * trace[e].right.n)

\* with a = -2 and b = 0: a + b was -2, b / a was 0, and a / b raised the
\* division by zero
C22_Witness ==
    /\ InScenario("Arithmetic")
    /\ status = "error"
    /\ Len(out) = 2
    /\ \E e \in NumberOps("Plus") :
          /\ trace[e].left = NumberValue(-2)
          /\ trace[e].right = NumberValue(0)
          /\ trace[e].res = Ok(NumberValue(-2))
    /\ \E e \in NumberOps("Slash") :
          trace[e].right = NumberValue(-2) /\ trace[e].res = Ok(NumberValue(0))
    /\ \E e \in NumberOps("Slash") :
          /\ trace[e].left = NumberValue(-2)
          /\ trace[e].right = NumberValue(0)
          /\ trace[e].res = ErrRuntime("Division by zero.")

\* the character of the source at which token k starts, and the one after
StartChar(k) == char_at(scanner, lexing.built[k].start)
SecondChar(k) == char_at(scanner, lexing.built[k].start + 1)
\* the characters token k was built from
Spelling(k) ==
    SubSeq(scanner.source, lexing.built[k].start + 1, lexing.built[k].current)

\* a token that starts at a digit is a Number token, made of all the digits
\* there (with one decimal part if a digit follows the point), and carries
\* the number they write
IsNumberToken(k) ==
    /\ lexing.tokens[k].token_type = "Number"
    /\ lexing.tokens[k].lexeme = Text(Spelling(k))
    /\ \A i \in DOMAIN Spelling(k) : Spelling(k)[i] \in Digits \cup {"."}
    /\ ~is_ascii_digit(char_at(scanner, lexing.built[k].current))
    /\ lexing.tokens[k].literal = Some(parse(Spelling(k)).val)

\* C23: a literal that starts with a digit is scanned as a Number token
\* carrying its value, and a number written with a leading decimal point and
\* no integer part, such as .5, is scanned as an Error token.
C23_LeadingPointIsAnError ==
    \A k \in DOMAIN lexing.tokens :
        /\ is_ascii_digit(StartChar(k)) => IsNumberToken(k)
        /\ StartChar(k) = "." /\ is_ascii_digit(SecondChar(k)) =>
              lexing.tokens[k].token_type = "Error"

\* the characters scan_token has a case for
Recognized ==
    DOMAIN single_char_tokens \cup {"/", "!", "=", "<", ">", "\"", "_"}
        \cup Digits \cup Letters
WhiteSpace == {" ", "\r", "\t", "\n"}

\* the characters between the end of token k and the start of the next one
Gap(k) ==
    SubSeq(scanner.source, lexing.built[k].current + 1, lexing.built[k + 1].start)

\* the messages of the Error tokens, in the order of the tokens
ErrorMessages ==
    LET IsError(t) == t.token_type = "Error"
        errs == SelectSeq(lexing.tokens, IsError)
    IN [i \in DOMAIN errs |-> errs[i].lexeme]

\* C24: the scanner recovers after a lexical error. An unrecognized
\* character gives one Error token and consumes that character alone; the
\* next token starts at the next character that is not white space or
\* comment; scan_tokens comes to its return, with the messages of all the
\* Error tokens if there is one and with the tokens otherwise.
C24_ScannerRecovers ==
    /\ \A k \in DOMAIN lexing.tokens :
          /\ lexing.tokens[k].token_type # "Eof" /\ StartChar(k) \notin Recognized =>
                /\ lexing.tokens[k].token_type = "Error"
                /\ lexing.built[k].current = lexing.built[k].start + 1
          /\ k < Len(lexing.tokens) =>
                /\ lexing.built[k].current <= lexing.built[k + 1].start
                /\ \/ \A i \in DOMAIN Gap(k) : Gap(k)[i] \in WhiteSpace
                   \/ \E i \in DOMAIN Gap(k) : Gap(k)[i] = "/"
    /\ lexing.state # "panicked"
    /\ lexing.state = "returned" =>
          lexing.result = Some(IF ErrorMessages = <<>>
                               THEN [tag |-> "Ok", tokens |-> lexing.tokens]
                               ELSE [tag |-> "Err", errors |-> ErrorMessages])

\* C29: whatever the source, the cursor is within the source when a token
\* is built (start <= current <= length), each token but Eof consumes a
\* character, and scan_tokens comes to its return, with tokens that end in
\* the only Eof token or with error messages.
C29_CursorStaysInSource ==
    /\ \A k \in DOMAIN lexing.built :
          /\ lexing.built[k].start <= lexing.built[k].current
          /\ lexing.built[k].current <= Len(scanner.source)
    /\ Len(lexing.tokens) <= Len(scanner.source) + 1
    /\ lexing.state # "panicked"
    /\ lexing.state = "returned" =>
          /\ lexing.tokens[Len(lexing.tokens)].token_type = "Eof"
          /\ \A k \in 1..(Len(lexing.tokens) - 1) : lexing.tokens[k].token_type # "Eof"
          /\ lexing.result[1].tag \in {"Ok", "Err"}

\* the calls of a bound method: the closure of the function binds `this`
BoundCalls ==
    { c \in Events("call_function") :
        "this" \in DOMAIN heap[trace[c].func.closure].values }

\* C25: in the body of a bound method, the scopes after those of the call
\* itself are the scope holding `this` and the field store of the
\* instance, and nothing else: a name is resolved there or is undefined,
\* whatever the environment where the class was declared binds.
C25_MethodsDoNotSeeTheirDeclarationScope ==
    \A c \in BoundCalls :
        LET closure  == trace[c].func.closure
            instance == heap[closure].values["this"]
        IN /\ Chain(heap, closure) = << closure, instance.environment >>
           /\ \A l \in FreeLookups(c) :
                 /\ trace[l].binder \in {0, closure, instance.environment}
                 /\ trace[l].binder = 0 => trace[l].res = Undefined(trace[l].name)

\* k.show() printed the field v, read as a bare name through the field
\* store; then k.peek() found the global g undefined, which the top level
\* binds
C25_Witness ==
    /\ InScenario("MethodScope")
    /\ out = << "field" >>
    /\ status = "error"
    /\ \E c \in BoundCalls, l \in Events("lookup") :
          /\ l \in FreeLookups(c)
          /\ trace[l].name = "v"
          /\ trace[l].binder = heap[1].values["k"].environment
          /\ trace[l].res = Ok(StringValue("field"))
    /\ \E c \in BoundCalls, l \in Events("lookup") :
          /\ l \in FreeLookups(c)
          /\ trace[l].name = "g"
          /\ trace[l].res = Undefined("g")
          /\ heap[1].values["g"] = StringValue("global")

\* the values bound somewhere in the heap
ValuesOf(h) == UNION { Range(h[e].values) : e \in DOMAIN h }
FunctionsOf(h) == { v \in ValuesOf(h) : v.t = "FunctionValue" }
InstancesOf(h) == { v \in ValuesOf(h) : v.t = "InstanceValue" }

\* b is what binding func to instance in heap h must give: every cell of h
\* as it was (the closure of func, the method tables of the classes, the
\* field store of the instance), one new cell binding exactly `this` to the
\* instance over its field store, and the function with that closure
IsBinding(b, h, func, instance) ==
    /\ Len(b.heap) = Len(h) + 1
    /\ SubSeq(b.heap, 1, Len(h)) = h
    /\ b.heap[Len(h) + 1] = Environment("this" :> instance, instance.environment)
    /\ b.func = LoxFunction(func.params, func.body, Len(h) + 1, func.is_initializer)
    /\ b.func.closure # func.closure

\* C26: bind(function, instance) changes nothing that exists and returns a
\* new function with the same parameters, body and is_initializer whose
\* closure is a fresh scope holding exactly `this` -> instance over the field
\* store of the instance. Checked for every function and instance of every
\* reachable heap, and on the closures of the bound methods that were called:
\* two instances give two closures with different `this`.
C26_BindChangesNothing ==
    /\ \A func \in FunctionsOf(heap), instance \in InstancesOf(heap) :
          IsBinding(bind(heap, func, instance), heap, func, instance)
    /\ \A c \in BoundCalls :
          LET closure == trace[c].func.closure
          IN /\ DOMAIN heap[closure].values = {"this"}
             /\ heap[closure].enclosing = heap[closure].values["this"].environment
             /\ \A d \in BoundCalls :
                   heap[trace[d].func.closure].values["this"]
                       # heap[closure].values["this"]
                   => trace[d].func.closure # closure

\* the init of one class has been bound to two instances and called on
\* each: same parameters and body, two closures, two values of `this`; the
\* class still finds its method with the closure it was declared with
C26_Witness ==
    \E c, d \in BoundCalls :
        /\ trace[c].func.body = trace[d].func.body
        /\ trace[c].func.params = trace[d].func.params
        /\ trace[c].func.closure # trace[d].func.closure
        /\ heap[trace[c].func.closure].values["this"]
              # heap[trace[d].func.closure].values["this"]
        /\ heap[trace[c].func.closure].values["this"].class
              = heap[trace[d].func.closure].values["this"].class
        /\ \E m \in FunctionsOf(heap) :
              /\ m.body = trace[c].func.body
              /\ m.closure = heap[trace[c].func.closure].values["this"].class.environment

\* the first k arguments of args were evaluated one after the other, in
\* that order, the last of them ending at event p: the length of the trace
\* when the first of them was begun, or -1
RECURSIVE ArgsBegin(_, _, _)
ArgsBegin(p, args, k) ==
    IF k = 0 THEN p
    ELSE IF /\ p \in DOMAIN trace
            /\ trace[p].ev = "arg"
            /\ trace[p].left = Len(args) - k
            /\ trace[p].val = args[k]
            /\ trace[p].from < p
         THEN ArgsBegin(trace[p].from, args, k - 1)
         ELSE -1

\* what is logged while an error goes up: the exits of blocks and calls, and
\* the failures of the calls around
Unwinding ==
    {"block", "execute_block", "call_function", "call_class_constructor",
     "arg_failed", "callee_failed"}

\* the events after event e, up to the end of the call in whose body e
\* happened (to the end of the trace at top level)
UntilEndOfCall(e) ==
    { j \in (e + 1)..Len(trace) :
        \A k \in (e + 1)..(j - 1) :
            ~(trace[k].ev = "call_function" /\ trace[k].frame = trace[e].frame) }

\* C27: when a call is dispatched, its callee has been evaluated first, then
\* its arguments one by one from left to right, and the values passed are
\* these; when the callee or an argument fails, nothing more is evaluated or
\* executed in the body that holds the call: no argument, no dispatch, no
\* statement.
C27_CalleeThenArgumentsInOrder ==
    /\ \A d \in Events("dispatch") :
          /\ trace[d].start <= trace[d].callee_done
          /\ ArgsBegin(d - 1, trace[d].args, Len(trace[d].args)) = trace[d].callee_done
    /\ \A e \in Events("arg_failed") \cup Events("callee_failed") :
          \A j \in UntilEndOfCall(e) : trace[j].ev \in Unwinding

\* mk()(s = s + "1", s = s + "2") ran the body after c, 1 and 2 were
\* appended to s in that order; then mk()(s = s + "1", nope, s = s + "2")
\* appended c and 1, failed on nope and neither appended 2 nor ran the body
C27_Witness ==
    /\ InScenario("CallOrder")
    /\ program = << -1, -2, -3, 1, 4, 2 >>
    /\ out = << "body", "c12" >>
    /\ status = "error"
    /\ heap[1].values["s"] = StringValue("c12c1")
    /\ \E d \in Events("dispatch") : Len(trace[d].args) = 2
    /\ \E e \in Events("arg_failed") : trace[e].left = 1 /\ e > 1 /\ trace[e - 1].ev = "raise"

\* C28: a field assignment obj.name = value evaluates to the instance obj,
\* and a variable assignment to the assigned value: what is assigned from a
\* field assignment (to a field, in a chain a.x = b.y = v, or to a variable)
\* is the instance of that assignment.
C28_FieldAssignmentYieldsInstance ==
    /\ \A s \in Events("set") :
          /\ trace[s].res = Ok(trace[s].instance)
          /\ trace[s].value_expr.k = "Set" =>
                /\ s > 1 /\ trace[s - 1].ev = "set"
                /\ trace[s].val = trace[s - 1].instance
    /\ \A s \in Events("assign") :
          /\ trace[s].res = Ok(trace[s].val)
          /\ trace[s].value_expr.k = "Set" =>
                /\ s > 1 /\ trace[s - 1].ev = "set"
                /\ trace[s].val = trace[s - 1].instance

\* a.x = b.y = 5 has put 5 in b.y and the instance b in a.x (a.x.y prints
\* 5); then print n = 7 printed the assigned value
C28_Witness ==
    /\ InScenario("Chained")
    /\ program = << -1, -2, -3, -4, 1, 2, 4 >>
    /\ out = << "5", "7" >>
    /\ heap[heap[1].values["a"].environment].values["x"] = heap[1].values["b"]
    /\ heap[heap[1].values["b"].environment].values["y"] = NumberValue(5)
    /\ \E s \in Events("set") : trace[s].value_expr.k = "Set"

\* every enclosing link points to an environment created earlier, or to none
PointsBack == \A e \in DOMAIN heap : heap[e].enclosing \in 0..(e - 1)

\* following the links from any environment visits no scope twice
NoScopeTwice ==
    \A e \in DOMAIN heap :
        /\ Len(Chain(heap, e)) <= Len(heap)
        /\ \A i, j \in DOMAIN Chain(heap, e) :
              i # j => Chain(heap, e)[i] # Chain(heap, e)[j]

\* a statement keeps every environment and its enclosing link
LinksKept ==
    \A e \in DOMAIN heap :
        e \in DOMAIN heap' /\ heap'[e].enclosing = heap[e].enclosing

\* C30: the enclosing links form finite acyclic chains: each link points to
\* an environment that existed before its own, no statement ever changes the
\* link of an existing environment, and the chain of every environment
\* visits each scope at most once.
C30_EnclosingLinksAreFixed ==
    /\ [](PointsBack /\ (PointsBack => NoScopeTwice))
    /\ [][LinksKept]_vars

\* environments made by a class declaration with a superclass, a
\* construction, a bind, a call and the block of its body are on the heap,
\* with a chain of four scopes, after three statements
C30_Witness ==
    /\ Len(program) >= 3
    /\ \E e \in DOMAIN heap : Len(Chain(heap, e)) >= 4
    /\ \E e \in DOMAIN heap :
          /\ DOMAIN heap[e].values = {"this"}
          /\ heap[e].enclosing # 0
          /\ heap[heap[e].enclosing].enclosing = 0
    /\ \E e \in DOMAIN heap : "super" \in DOMAIN heap[e].values /\ heap[e].enclosing = 1
    /\ Events("call_function") # {}
    /\ Events("execute_block") # {}

====
